---- MODULE Spec2Model ----
(***************************************************************************)
(* Connection lifecycle of kitten-wa's Client (src/unnamed/part_003): the  *)
(* per-session state machine, its reconnect timers, the pending connect    *)
(* deferred, the process-wide session registry and the background sweep    *)
(* that restores the other persisted sessions.                             *)
(*                                                                         *)
(* Every async method is cut at its awaits that really suspend: an action  *)
(* is the code that runs between two suspension points.  The imperative    *)
(* code is translated as functions from a program state S (a record of all *)
(* the variables) to the next program state, composed in source order.     *)
(***************************************************************************)
EXTENDS Integers, Sequences, FiniteSets, TLC

---------------------------------------------------------------------------
(* Bounds of the model *)

\* sockets constructed (or under construction) over a run, per session id
MaxSockets == 2
\* connect() calls over a run, per session id
MaxCalls == 2
\* maxRetries option of the client the application constructs
UserMaxRetries == 1

\* writes to the files of the plugin directory over a run
MaxWrites == 2
\* PluginManager instances alive at once
MaxManagers == 2
\* tasks holding or awaiting the mutex of one file
MaxQueue == 2
\* mutexes dropped by #cleanup while tasks hold them
MaxOrphans == 1
\* the characters of the body of a message
MaxBody == 4

(* Program constants *)

\* maxRetries of a client made by #restoreSession
SyncMaxRetries == 3
\* default backoff: Math.min(1000 * 2 ** (attempt - 1), 60_000)
BackoffBase == 1000
BackoffCap == 60000

Objs == {1, 2, 3}          \* Client objects: 1 is the application's
Ids == {1, 2}              \* session ids known to the store
Sweeps == {1, 2}           \* names for the sweeps in flight
Socks == 1..(MaxSockets * Cardinality(Ids))
Calls == 1..(MaxCalls * Cardinality(Ids))

\* the sockets, and the connect() calls, a session id may take
SockPool(i) == ((i - 1) * MaxSockets + 1)..(i * MaxSockets)
CallPool(i) == ((i - 1) * MaxCalls + 1)..(i * MaxCalls)

\* ConnectionState
DISCONNECTED == "disconnected"
CONNECTING == "connecting"
CONNECTED == "connected"
RECONNECTING == "reconnecting"
ConnectionState == {DISCONNECTED, CONNECTING, CONNECTED, RECONNECTING}

\* status codes a close notification may carry: the keys of
\* DISCONNECT_HANDLERS and one code the table does not hold
StatusCodes == {"connectionClosed", "restartRequired", "timedOut",
                "connectionLost", "unavailableService", "loggedOut",
                "forbidden", "405", "unrecognized"}

\* DISCONNECT_HANDLERS.get(statusCode): <<recoverable, deleteSession>>,
\* or <<>> when the table has no entry
DISCONNECT_HANDLERS(statusCode) ==
  CASE statusCode \in {"connectionClosed", "restartRequired", "timedOut",
                       "connectionLost", "unavailableService"}
         -> <<TRUE, FALSE>>
    [] statusCode = "loggedOut" -> <<TRUE, TRUE>>
    [] statusCode = "forbidden" -> <<FALSE, TRUE>>
    [] statusCode = "405" -> <<TRUE, TRUE>>
    [] OTHER -> <<>>

parseDisconnectReason_forbiddenRecoverable(statusCode) ==
  LET handler == DISCONNECT_HANDLERS(statusCode) IN
  IF handler = <<>>
  THEN [statusCode |-> statusCode, recoverable |-> TRUE, deleteSession |-> FALSE]
  ELSE [statusCode |-> statusCode, recoverable |-> TRUE,
        deleteSession |-> handler[2]]

parseDisconnectReason(statusCode) ==
  LET handler == DISCONNECT_HANDLERS(statusCode) IN
  IF handler = <<>>
  THEN [statusCode |-> statusCode, recoverable |-> TRUE, deleteSession |-> FALSE]
  ELSE [statusCode |-> statusCode, recoverable |-> handler[1],
        deleteSession |-> handler[2]]

Pow2(n) == IF n <= 0 THEN 1 ELSE 2 ^ n
Min(a, b) == IF a <= b THEN a ELSE b

\* the default backoff option of the constructor
backoff(attempt) == Min(BackoffBase * Pow2(attempt - 1), BackoffCap)

---------------------------------------------------------------------------
VARIABLES
  client,        \* client[o]: the fields of Client object o
  socket,        \* socket[s]: a socket, its listener and the handlers
                 \*   of its notifications that are suspended at an await
  engine,        \* engine[s]: the PluginManager made by the open of s
  call,          \* call[k]: the promise returned by the k-th connect()
  deferred,      \* deferred[k]: the deferred made by the k-th connect()
  registry,      \* Client.#registry: session id -> Client object (0: none)
  persisted,     \* ids listSessions() returns
  isSyncing,     \* Client.#isSyncing
  isConfiguring, \* Client.#isConfiguring
  ready,         \* PluginManager.#ready
  sweep,         \* the #syncOtherSessions calls awaiting Promise.allSettled
  files,         \* the plugin directory: file path -> what the file holds
  plugins,       \* PluginManager.#plugins: identity -> plugin (or none)
  buckets,       \* PluginManager.#buckets: event -> { auto, match }
  eventCounts,   \* PluginManager.#eventCounts
  handlers,      \* handlers[e]: the events of #handlers of manager e
  debounceTimers,\* PluginManager.#debounceTimers: file path -> type
  fileLocks,     \* PluginManager.#fileLocks: file path -> the tasks that
                 \*   hold (the first) or await the mutex of the file
  orphanLocks,   \* mutexes #cleanup dropped from #fileLocks with tasks
  writes,        \* how many times the developer has written a file
  matching,      \* a call of #test: its arguments and its result
  last           \* the operation the last step ran, and what it did

vars == <<client, socket, engine, call, deferred, registry, persisted,
          isSyncing, isConfiguring, ready, sweep, files, plugins, buckets,
          eventCounts, handlers, debounceTimers, fileLocks, orphanLocks,
          writes, matching, last>>

\* what a step did, besides changing the program state
NoEv ==
  [made |-> {},        \* ids #restoreSession made a Client for
   listedBy |-> 0,     \* the Client whose #syncOtherSessions passed the guard
   skippedBy |-> 0,    \* the Client whose #syncOtherSessions returned at it
   attempt |-> 0,      \* the argument #backoff was called with
   delay |-> 0,        \* the milliseconds #wait was called with
   fatal |-> FALSE,    \* a non-recoverable ConnectionError was made
   file |-> <<>>,      \* the file a plugin task ran for, and the type of
   type |-> "",        \*   its notification
   loadFailed |-> FALSE, \* stat or import of the file threw
   loaded |-> <<>>,    \* the plugins the load made
   unloaded |-> {},    \* the identities #unloadFile removed
   body |-> <<>>,      \* the body of the ctx #dispatch was called with
   invoked |-> <<>>,   \* the plugins #dispatch invoked, in order
   escaped |-> FALSE,  \* a plugin failure got out of #execute
   logoutCaught |-> "", \* the await whose failure logout() caught
   pairing |-> ""]     \* what #handleAuth did with a pairing offer: abort,
                       \*   ignored, handler, silent, prompt or shown

\* the program state as one value
Cur == [client |-> client, socket |-> socket, engine |-> engine,
        call |-> call, deferred |-> deferred, registry |-> registry,
        persisted |-> persisted, isSyncing |-> isSyncing,
        isConfiguring |-> isConfiguring, ready |-> ready, sweep |-> sweep,
        files |-> files, plugins |-> plugins, buckets |-> buckets,
        eventCounts |-> eventCounts, handlers |-> handlers,
        debounceTimers |-> debounceTimers, fileLocks |-> fileLocks,
        orphanLocks |-> orphanLocks, writes |-> writes,
        ev |-> NoEv]

\* new Client(options): the instance properties of lines 87-120
NewClient(id, sync, silent, onPairing, maxRetries) ==
  [created |-> TRUE, id |-> id, sync |-> sync, silent |-> silent,
   onPairing |-> onPairing, maxRetries |-> maxRetries,
   state |-> DISCONNECTED, sock |-> 0, plugins |-> 0,
   hasConnectedOnce |-> FALSE, reconnectAttempts |-> 0,
   reconnectTimer |-> 0, cancelWait |-> 0, isShuttingDown |-> FALSE,
   pendingConnect |-> 0, authConfig |-> "none",
   \* this.session is set (by #createSocket)
   session |-> FALSE,
   \* where a call of logout() stands: "none", "deauth" (at its await of
   \* sock.logout()) or "deleting" (at its await of session.delete())
   loggingOut |-> "none",
   \* history, not a field of the class: the calls of #scheduleReconnect
   \* since the last open notification (or #initConnection) of this client
   scheduledSinceOpen |-> 0]

NoClient == [NewClient(0, FALSE, FALSE, FALSE, 0) EXCEPT !.created = FALSE]

\* a socket slot that no createSocket has taken yet
NoSocket ==
  [phase |-> "unused",   \* unused, creating, failed, fresh, open, closed, dead
   owner |-> 0,          \* the Client whose #createSocket made it
   call |-> 0,           \* the connect() whose #initConnection awaits it
   listening |-> FALSE,  \* 'connection.update' listener attached
   opening |-> "none",   \* #onConnectionOpen: none, init (awaits pluginManager)
   wasReconnecting |-> FALSE,
   closing |-> "none",   \* #onConnectionClose: none, deleting (awaits delete)
   statusCode |-> "",
   timer |-> "none",     \* setTimeout of #wait: none, armed, fired, cleared
   wait |-> "none",      \* promise of #wait: none, pending, false, true
   prompt |-> FALSE,     \* #handleAuth awaits getConnectionConfig
   pool |-> 0]           \* while unused: the session id it is kept for

NoEngine == [st |-> "none", sock |-> 0]   \* st: none, init, live, destroyed

NoCall == [st |-> "unused", obj |-> 0, def |-> 0, sweep |-> 0]

\* what is left of a socket, and of a connect() call, the program is done with
DoneSocket == [NoSocket EXCEPT !.phase = "dead"]
DoneCall == [NoCall EXCEPT !.st = "done"]

---------------------------------------------------------------------------
(* Allocation of the bounded pools *)

FreeSocks(S, i) ==
  {s \in Socks : S.socket[s].phase = "unused" /\ S.socket[s].pool = i}
FreeCalls(S, i) == {k \in CallPool(i) : S.call[k].st = "unused"}
FreeObjs(S) == {o \in Objs : ~S.client[o].created}
Least(X) == CHOOSE x \in X : \A y \in X : x <= y

---------------------------------------------------------------------------
(* PluginManager: the matcher compiler.  A string is a sequence of        *)
(* characters; a trigger is a literal (a string) or a pattern.            *)

\* the characters of the texts of the model: a prefix character, the
\* letters of the triggers in both cases, a space and a tab
TAB == "\t"
Chars == {"!", "h", "H", "e", " ", TAB}

\* String.prototype.toLowerCase
lowerChar(c) == IF c = "H" THEN "h" ELSE c
toLowerCase(s) == [i \in DOMAIN s |-> lowerChar(s[i])]

\* String.prototype.slice(from), slice(0, to), indexOf(ch), startsWith(p):
\* positions count from 0, indexOf gives -1 when ch is not there
slice(s, from) == SubSeq(s, from + 1, Len(s))
sliceTo(s, to) == SubSeq(s, 1, to)
indexOf(s, ch) ==
  IF \E i \in DOMAIN s : s[i] = ch
  THEN (CHOOSE i \in DOMAIN s : s[i] = ch /\ \A j \in 1..(i - 1) : s[j] # ch) - 1
  ELSE -1
startsWith(s, p) == Len(p) <= Len(s) /\ SubSeq(s, 1, Len(p)) = p

\* a literal trigger and a pattern trigger: /word/, no flags
Str(s) == [re |-> FALSE, v |-> s]
Re(word) == [re |-> TRUE, v |-> word]

\* RegExp.prototype.exec of /word/ from lastIndex 0: the first occurrence
\* of word in text, or null
exec(re, text) ==
  LET at == {i \in 0..(Len(text) - Len(re.v)) :
               SubSeq(text, i + 1, i + Len(re.v)) = re.v}
  IN  IF at = {} THEN [null |-> TRUE, text |-> <<>>, index |-> -1]
      ELSE [null |-> FALSE, text |-> re.v,
            index |-> CHOOSE i \in at : \A j \in at : i <= j]

\* Array.prototype.filter, for the two filters of #compile
RECURSIVE filterRe(_, _)
filterRe(match, re) ==
  IF match = <<>> THEN <<>>
  ELSE (IF Head(match).re = re THEN <<Head(match)>> ELSE <<>>)
       \o filterRe(Tail(match), re)

\* config.plugins.prefixes
PREFIXES == {".", "\\", "!"}

\* the prefix option of a plugin: not given, false, or a list of prefixes
\* (an empty list is truthy: it makes an empty set)
PrefixUndefined == [k |-> "undefined", v |-> {}]
PrefixFalse == [k |-> "false", v |-> {}]
PrefixList(v) == [k |-> "list", v |-> v]

\* #compile returned null: the plugin has no matcher
NoMatchers ==
  [null |-> TRUE, strings |-> <<>>, regexes |-> <<>>,
   prefixes |-> [null |-> TRUE, set |-> {}]]

\* #compile(match, prefixOpt = PREFIXES); matchers.set is null when
\* strings is empty, and holds the strings otherwise
compile(match, prefixOpt) ==
  IF match = <<>> THEN NoMatchers
  ELSE LET lits == filterRe(match, FALSE)
           strings == [i \in DOMAIN lits |-> toLowerCase(lits[i].v)]
           regexes == filterRe(match, TRUE)
           prefixes ==
             IF prefixOpt.k = "false" THEN [null |-> TRUE, set |-> {}]
             ELSE IF prefixOpt.k = "list"
             THEN [null |-> FALSE, set |-> prefixOpt.v]
             ELSE [null |-> FALSE, set |-> PREFIXES]
       IN  [null |-> FALSE, strings |-> strings, regexes |-> regexes,
            prefixes |-> prefixes]

\* the results of #test: null, { match: literal, prefix }, and
\* { match: the result of exec, prefix: null }
NoResult == [null |-> TRUE, re |-> FALSE, match |-> <<>>, index |-> -1,
             prefix |-> "null"]
Literal(s, prefix) == [null |-> FALSE, re |-> FALSE, match |-> s,
                       index |-> -1, prefix |-> prefix]
Pattern(m) == [null |-> FALSE, re |-> TRUE, match |-> m.text,
               index |-> m.index, prefix |-> "null"]

\* the loop of #test over matchers.strings: the first literal the
\* command starts with and is longer than
RECURSIVE startsWithAny_last(_, _)
startsWithAny_last(strings, cmd) ==
  IF strings = <<>> THEN <<>>
  ELSE LET later == startsWithAny_last(Tail(strings), cmd) IN
       IF later # <<>> THEN later
       ELSE IF Len(cmd) > Len(Head(strings)) /\ startsWith(cmd, Head(strings))
       THEN <<Head(strings)>>
       ELSE <<>>

RECURSIVE startsWithAny(_, _)
startsWithAny(strings, cmd) ==
  IF strings = <<>> THEN <<>>
  ELSE IF Len(cmd) > Len(Head(strings)) /\ startsWith(cmd, Head(strings))
  THEN <<Head(strings)>>
  ELSE startsWithAny(Tail(strings), cmd)

\* the loop of #test over matchers.regexes, on the body as it came
RECURSIVE execAny(_, _)
execAny(regexes, body) ==
  IF regexes = <<>> THEN NoResult
  ELSE LET m == exec(Head(regexes), body) IN
       IF ~m.null THEN Pattern(m) ELSE execAny(Tail(regexes), body)

\* the literal path of #test: the result, or NoResult when it falls through
testLiteral(matchers, text) ==
  IF matchers.strings = <<>> THEN NoResult
  ELSE LET prefix == text[1]
           prefixValid == matchers.prefixes.null
                          \/ prefix \in matchers.prefixes.set
           rest == slice(text, 1)
           idx == indexOf(rest, " ")
           cmd == IF idx < 0 THEN rest ELSE sliceTo(rest, idx)
           set == {matchers.strings[i] : i \in DOMAIN matchers.strings}
       IN  IF ~prefixValid \/ cmd = <<>> THEN NoResult
           ELSE IF cmd \in set THEN Literal(cmd, prefix)
           ELSE LET s == startsWithAny(matchers.strings, cmd) IN
                IF s # <<>> THEN Literal(s[1], prefix) ELSE NoResult

\* #test(matchers, body)
test_lowered(matchers, body) ==
  IF body = <<>> THEN NoResult
  ELSE LET r == testLiteral(matchers, toLowerCase(body)) IN
       IF ~r.null THEN r ELSE execAny(matchers.regexes, toLowerCase(body))

test(matchers, body) ==
  IF body = <<>> THEN NoResult
  ELSE LET r == testLiteral(matchers, toLowerCase(body)) IN
       IF ~r.null THEN r ELSE execAny(matchers.regexes, body)

\* no call of #test is looked at
NoMatching == [match |-> <<>>, prefix |-> PrefixUndefined, body |-> <<>>,
               done |-> FALSE, result |-> NoResult]

---------------------------------------------------------------------------
(* PluginManager: the registry, the buckets and the managers *)

\* EVENTS: two of its nineteen events, and config.plugins.defaultEvent
EVENTS == {"messages.upsert", "call"}
defaultEvent == "messages.upsert"

\* the source files of the plugin directory, by their path relative to
\* PLUGIN_DIR, and the names a module may export, in the order of
\* Object.entries
Files == {<<"a", ".", "j", "s">>, <<"a", ".", "t", "s">>}
Names == << <<"x">>, <<"y">> >>

\* an exported value: a function with its properties
Export(events, match, prefix, fails) ==
  [fn |-> TRUE, enabled |-> TRUE, events |-> events, match |-> match,
   prefix |-> prefix, fails |-> fails]

\* the exported values of the model: a plugin of the default event that
\* throws, one gated by the trigger "he", one of the event 'call' (and of
\* an event EVENTS does not hold), one whose promise rejects, one switched off
autoThrows == Export(<<>>, <<>>, PrefixUndefined, "throws")
matchHe == Export(<<>>, <<Str(<<"h", "e">>)>>, PrefixUndefined, "no")
callOk == Export(<<"call", "bogus">>, <<>>, PrefixUndefined, "no")
autoRejects == Export(<<>>, <<>>, PrefixUndefined, "rejects")
switchedOff == [callOk EXCEPT !.enabled = FALSE]

\* what a file holds: nothing (no such file), a module that fails to
\* import, or a module with its exports (a function on some of Names)
Absent == [st |-> "absent", exports |-> <<>>]
Broken == [st |-> "broken", exports |-> <<>>]
Module(exports) == [st |-> "ok", exports |-> exports]

\* #normalize(value): the function, or null
normalize(value) == value.fn

\* the identity of #loadFile: the relative path without its .js or .ts,
\* a colon, the export name
stripExt(filePath) ==
  LET n == Len(filePath) IN
  IF n >= 3 /\ filePath[n - 2] = "." /\ filePath[n - 1] \in {"j", "t"}
     /\ filePath[n] = "s"
  THEN SubSeq(filePath, 1, n - 3) ELSE filePath
identity(filePath, name) == stripExt(filePath) \o <<":">> \o name

\* plugin.events, as _meta.events keeps it
RECURSIVE knownEvents(_)
knownEvents(events) ==
  IF events = <<>> THEN <<>>
  ELSE (IF Head(events) \in EVENTS THEN <<Head(events)>> ELSE <<>>)
       \o knownEvents(Tail(events))
metaEvents(value) ==
  IF knownEvents(value.events) # <<>> THEN knownEvents(value.events)
  ELSE <<defaultEvent>>

\* the plugin #loadFile makes of the export name of filePath: the
\* function with its _meta
Plugin(filePath, name, value) ==
  [id |-> identity(filePath, name), filePath |-> filePath, name |-> name,
   fails |-> value.fails, events |-> metaEvents(value),
   matchers |-> compile(value.match, value.prefix)]

\* `loaded` of #loadFile for the module mod, in the order of its entries
RECURSIVE loadedFrom(_, _, _)
loadedFrom(filePath, mod, names) ==
  IF names = <<>> THEN <<>>
  ELSE LET name == Head(names) IN
       (IF name \in DOMAIN mod.exports
           /\ normalize(mod.exports[name]) /\ mod.exports[name].enabled
        THEN <<Plugin(filePath, name, mod.exports[name])>> ELSE <<>>)
       \o loadedFrom(filePath, mod, Tail(names))
loaded(filePath, mod) == loadedFrom(filePath, mod, Names)

\* createBuckets(), and the first #eventCounts
createBuckets == [e \in EVENTS |-> [auto |-> <<>>, match |-> <<>>]]
noCounts == [e \in EVENTS |-> 0]

\* Map.has and Map.delete on a bucket, a list of plugins in insertion order
bucketHas(bucket, id) == \E i \in DOMAIN bucket : bucket[i].id = id
RECURSIVE bucketDelete(_, _)
bucketDelete(bucket, id) ==
  IF bucket = <<>> THEN <<>>
  ELSE (IF Head(bucket).id = id THEN <<>> ELSE <<Head(bucket)>>)
       \o bucketDelete(Tail(bucket), id)

\* #register(id, plugin)
RECURSIVE registerEvents_countsAlways(_, _, _)
registerEvents_countsAlways(S, plugin, events) ==
  IF events = <<>> THEN S
  ELSE LET e == Head(events)
           key == IF plugin.matchers.null THEN "auto" ELSE "match"
           S1 == IF bucketHas(S.buckets[e][key], plugin.id)
                 THEN [S EXCEPT !.eventCounts[e] = @ + 1]
                 ELSE [S EXCEPT !.buckets[e][key] = Append(@, plugin),
                                !.eventCounts[e] = @ + 1]
       IN  registerEvents_countsAlways(S1, plugin, Tail(events))

RECURSIVE registerEvents(_, _, _)
registerEvents(S, plugin, events) ==
  IF events = <<>> THEN S
  ELSE LET e == Head(events)
           key == IF plugin.matchers.null THEN "auto" ELSE "match"
           S1 == IF bucketHas(S.buckets[e][key], plugin.id) THEN S
                 ELSE [S EXCEPT !.buckets[e][key] = Append(@, plugin),
                                !.eventCounts[e] = @ + 1]
       IN  registerEvents(S1, plugin, Tail(events))
registerPlugin(S, plugin) == registerEvents(S, plugin, plugin.events)

\* #unregister(id)
RECURSIVE unregisterEvents(_, _, _)
unregisterEvents(S, id, events) ==
  IF events = <<>> THEN S
  ELSE LET e == Head(events)
           S1 == IF bucketHas(S.buckets[e].auto, id)
                 THEN [S EXCEPT !.buckets[e].auto = bucketDelete(@, id),
                                !.eventCounts[e] = IF @ > 0 THEN @ - 1 ELSE 0]
                 ELSE IF bucketHas(S.buckets[e].match, id)
                 THEN [S EXCEPT !.buckets[e].match = bucketDelete(@, id),
                                !.eventCounts[e] = IF @ > 0 THEN @ - 1 ELSE 0]
                 ELSE S
       IN  unregisterEvents(S1, id, Tail(events))
unregisterPlugin(S, id) ==
  IF id \in DOMAIN S.plugins
  THEN unregisterEvents(S, id, S.plugins[id].events) ELSE S

\* #plugins.set(id, plugin) and #plugins.delete(id)
pluginsSet(S, plugin) ==
  [S EXCEPT !.plugins = [i \in DOMAIN @ \cup {plugin.id} |->
                           IF i = plugin.id THEN plugin ELSE @[i]]]
pluginsDelete(S, id) ==
  [S EXCEPT !.plugins = [i \in DOMAIN @ \ {id} |-> @[i]]]

\* the loop of #loadFile with register, and of #hmr, over the loaded
\* plugins
RECURSIVE install(_, _)
install(S, plugs) ==
  IF plugs = <<>> THEN S
  ELSE install(registerPlugin(pluginsSet(S, Head(plugs)), Head(plugs)),
               Tail(plugs))

\* #unloadFile(filePath)
RECURSIVE unloadIds(_, _)
unloadIds(S, ids) ==
  IF ids = {} THEN S
  ELSE LET id == CHOOSE i \in ids : TRUE IN
       unloadIds(pluginsDelete(unregisterPlugin(S, id), id), ids \ {id})
unloadFile(S, filePath) ==
  LET ids == {id \in DOMAIN S.plugins : S.plugins[id].filePath = filePath}
  IN  unloadIds([S EXCEPT !.ev.unloaded = ids], ids)

\* PluginManager.#instances
instances(S) == {e \in Socks : S.engine[e].st \in {"init", "live"}}

\* #syncListeners of the manager e, and #syncAll
syncListeners(S, e) ==
  IF S.engine[e].st \notin {"init", "live"} THEN S
  ELSE [S EXCEPT !.handlers[e] = {ev \in EVENTS : S.eventCounts[ev] > 0}]
RECURSIVE syncEach(_, _)
syncEach(S, es) ==
  IF es = {} THEN S
  ELSE LET e == CHOOSE x \in es : TRUE IN
       syncEach(syncListeners(S, e), es \ {e})
syncAll(S) == syncEach(S, instances(S))

---------------------------------------------------------------------------
(* PluginManager: loading, hot reload and the life of a manager *)

\* a task of the mutex of a file: the exec of the #loadFile that the
\* #loadAll of manager `by` runs, or the callback of #hmr for a
\* notification of the given type
LoadTask(by) == [hmr |-> FALSE, type |-> "", by |-> by]
HmrTask(type) == [hmr |-> TRUE, type |-> type, by |-> 0]

noLocks == [f \in Files |-> <<>>]
noTimers == [f \in Files |-> "none"]

\* the exec of #loadFile(filePath, parent, true) after its awaits of stat
\* and import, which read what the file holds now
loadFileDone(S, filePath) ==
  LET mod == S.files[filePath] IN
  IF mod.st # "ok" THEN [S EXCEPT !.ev.loadFailed = TRUE]
  ELSE install([S EXCEPT !.ev.loaded = loaded(filePath, mod)],
               loaded(filePath, mod))

\* the callback of #hmr for unlink
hmrUnlink(S, filePath) == syncAll(unloadFile(S, filePath))

\* the callback of #hmr for add and change after its await of
\* #loadFile(filePath, parent, false)
hmrLoaded_keepsOld(S, filePath) ==
  LET mod == S.files[filePath] IN
  IF mod.st # "ok" THEN [S EXCEPT !.ev.loadFailed = TRUE]
  ELSE syncAll(install([S EXCEPT !.ev.loaded = loaded(filePath, mod)],
                       loaded(filePath, mod)))

hmrLoaded_unloadsOnFailure(S, filePath) ==
  LET mod == S.files[filePath] IN
  IF mod.st # "ok"
  THEN syncAll(unloadFile([S EXCEPT !.ev.loadFailed = TRUE], filePath))
  ELSE syncAll(install(unloadFile([S EXCEPT !.ev.loaded = loaded(filePath, mod)],
                                  filePath),
                       loaded(filePath, mod)))

hmrLoaded(S, filePath) ==
  LET mod == S.files[filePath] IN
  IF mod.st # "ok" THEN [S EXCEPT !.ev.loadFailed = TRUE]
  ELSE syncAll(install(unloadFile([S EXCEPT !.ev.loaded = loaded(filePath, mod)],
                                  filePath),
                       loaded(filePath, mod)))

\* a mutex hands itself to the next task: the callbacks that do not
\* suspend (unlink) run to their end, the first one that does stays first
RECURSIVE drain(_, _, _)
drain(S, filePath, tasks) ==
  IF tasks # <<>> /\ Head(tasks).hmr /\ Head(tasks).type = "unlink"
  THEN drain(hmrUnlink(S, filePath), filePath, Tail(tasks))
  ELSE [S |-> S, tasks |-> tasks]

\* #getLock(filePath).runExclusive(task)
runExclusive(S, filePath, task) ==
  IF S.fileLocks[filePath] # <<>>
  THEN [S EXCEPT !.fileLocks[filePath] = Append(@, task)]
  ELSE LET r == drain(S, filePath, <<task>>) IN
       [r.S EXCEPT !.fileLocks[filePath] = r.tasks]

\* the first task of a mutex of filePath comes back from its await
taskDone(S, filePath, tasks) ==
  LET S1 == [S EXCEPT !.ev.file = filePath, !.ev.type = Head(tasks).type]
      S2 == IF Head(tasks).hmr THEN hmrLoaded(S1, filePath)
            ELSE loadFileDone(S1, filePath)
  IN  drain(S2, filePath, Tail(tasks))

\* the timer of #debounce fires: #hmr(filePath, type)
hmr(S, filePath) ==
  LET type == S.debounceTimers[filePath]
      S1 == [S EXCEPT !.debounceTimers[filePath] = "none",
                      !.ev.file = filePath, !.ev.type = type]
  IN  runExclusive(S1, filePath, HmrTask(type))

\* #debounce(filePath, type)
debounce(S, filePath, type) == [S EXCEPT !.debounceTimers[filePath] = type]

\* the mutexes #cleanup drops while tasks hold or await them
RECURSIVE heldLocks(_, _)
heldLocks(S, fs) ==
  IF fs = {} THEN <<>>
  ELSE LET f == CHOOSE x \in fs : TRUE
       IN  (IF S.fileLocks[f] # <<>>
            THEN <<[file |-> f, tasks |-> S.fileLocks[f]]>> ELSE <<>>)
           \o heldLocks(S, fs \ {f})

\* #cleanup()
cleanup(S) ==
  [S EXCEPT !.ready = FALSE,
            !.debounceTimers = noTimers,
            !.orphanLocks = @ \o heldLocks(S, Files),
            !.fileLocks = noLocks,
            !.plugins = <<>>,
            !.buckets = createBuckets,
            !.eventCounts = noCounts]

\* destroy() if it ran #cleanup without looking at #instances
destroy_alwaysCleans(S, e) ==
  IF S.engine[e].st \notin {"init", "live"} THEN S
  ELSE cleanup([S EXCEPT !.engine[e].st =
                           IF @ = "init" THEN "zombie" ELSE "destroyed",
                         !.handlers[e] = {}])

\* PluginManager.destroy, with #cleanup when the last instance goes; a
\* manager destroyed during its init() is a "zombie" until init() ends
destroy(S, e) ==
  IF S.engine[e].st \notin {"init", "live"} THEN S
  ELSE LET S1 == [S EXCEPT !.engine[e].st =
                             IF @ = "init" THEN "zombie" ELSE "destroyed",
                           !.handlers[e] = {}]
       IN  IF instances(S1) = {} THEN cleanup(S1) ELSE S1

\* #loadAll up to its await of Promise.allSettled: a #loadFile for every
\* file of the directory
RECURSIVE loadAll(_, _, _)
loadAll(S, e, fs) ==
  IF fs = {} THEN S
  ELSE LET f == CHOOSE x \in fs : TRUE IN
       loadAll(IF S.files[f].st = "absent" THEN S
               ELSE runExclusive(S, f, LoadTask(e)),
               e, fs \ {f})

\* new PluginManager(sock) and init(), up to the await of #loadAll (or to
\* its end, when the registry is loaded)
init(S, e, sock) ==
  IF S.engine[e].st \in {"zombie", "destroyed"} THEN S
  ELSE LET S1 == [S EXCEPT !.engine[e] = [st |-> "init", sock |-> sock]] IN
       IF ~S1.ready THEN loadAll(S1, e, Files)
       ELSE [syncListeners(S1, e) EXCEPT !.engine[e].st = "live"]

\* whether the #loadFile calls of the #loadAll of manager e have settled
loadsSettled(S, e) ==
  /\ \A f \in Files : \A i \in DOMAIN S.fileLocks[f] :
       S.fileLocks[f][i].by # e
  /\ \A j \in DOMAIN S.orphanLocks : \A i \in DOMAIN S.orphanLocks[j].tasks :
       S.orphanLocks[j].tasks[i].by # e

\* the rest of init() after #loadAll
initDone(S, e) ==
  LET S1 == [S EXCEPT !.ready = TRUE] IN
  IF S1.engine[e].st = "init"
  THEN [syncListeners(S1, e) EXCEPT !.engine[e].st = "live"]
  ELSE [S1 EXCEPT !.engine[e].st = "destroyed"]

---------------------------------------------------------------------------
(* PluginManager: dispatch *)

\* #execute(id, plugin, sock, ctx, match): whether a failure of the plugin
\* gets out of it to the loop of #dispatch.  It is an async function with
\* the call in a try: a throw and a rejection both end in its catch.
execute_noCatch(plugin) == plugin.fails = "throws"

execute(plugin) == FALSE

\* the two loops of #dispatch over a bucket; a failure that gets out of
\* #execute ends #dispatch
RECURSIVE dispatchAuto(_, _)
dispatchAuto(S, bucket) ==
  IF bucket = <<>> \/ S.ev.escaped THEN S
  ELSE dispatchAuto(
         [S EXCEPT !.ev.invoked = Append(@, [id |-> Head(bucket).id,
                                             match |-> NoResult]),
                   !.ev.escaped = execute(Head(bucket))],
         Tail(bucket))

RECURSIVE dispatchMatch(_, _, _)
dispatchMatch(S, bucket, body) ==
  IF bucket = <<>> \/ S.ev.escaped THEN S
  ELSE LET plugin == Head(bucket)
           result == test(plugin.matchers, body)
       IN  dispatchMatch(
             IF plugin.matchers.null \/ result.null THEN S
             ELSE [S EXCEPT !.ev.invoked = Append(@, [id |-> plugin.id,
                                                      match |-> result]),
                            !.ev.escaped = execute(plugin)],
             Tail(bucket), body)

\* #dispatch(sock, ctx, bucket) of manager e, for the event and the body
\* of ctx
dispatch(S, e, event, body) ==
  IF S.engine[e].st \notin {"init", "live"} THEN S
  ELSE LET bucket == S.buckets[event]
           S1 == dispatchAuto(S, bucket.auto)
       IN  IF bucket.match # <<>> /\ body # <<>>
           THEN dispatchMatch(S1, bucket.match, body)
           ELSE S1

---------------------------------------------------------------------------
(* Client: the synchronous helpers *)

register(S, o) == [S EXCEPT !.registry[S.client[o].id] = o]

unregister(S, o) == [S EXCEPT !.registry[S.client[o].id] = 0]

setState(S, o, newState) == [S EXCEPT !.client[o].state = newState]

\* settles the pending deferred, if any, and forgets it
resolvePending(S, o, outcome) ==
  LET d == S.client[o].pendingConnect IN
  IF d = 0 THEN S
  ELSE [S EXCEPT !.client[o].pendingConnect = 0, !.deferred[d] = outcome]

cleanupSocket(S, o) ==
  LET c == S.client[o]
      S1 == IF c.plugins # 0 /\ S.engine[c.plugins].st # "destroyed"
            THEN [destroy(S, c.plugins) EXCEPT !.client[o].plugins = 0]
            ELSE S
  IN  IF c.sock = 0 THEN S1
      ELSE [S1 EXCEPT !.socket[c.sock].listening = FALSE,
                      !.client[o].sock = 0]

\* clearTimeout stops the timer of #reconnectTimer; #cancelWait resolves
\* the promise of the #wait that was started last
clearReconnectTimer(S, o) ==
  LET c == S.client[o] IN
  IF c.reconnectTimer = 0 THEN S
  ELSE LET S1 == [S EXCEPT !.socket[c.reconnectTimer].timer = "cleared",
                           !.client[o].reconnectTimer = 0]
       IN  IF c.cancelWait # 0 /\ S1.socket[c.cancelWait].wait = "pending"
           THEN [S1 EXCEPT !.socket[c.cancelWait].wait = "true"]
           ELSE S1

\* #createSocket up to its await of initSession: socket s is being made;
\* k is the connect() call whose #initConnection awaits it (0: a reconnect)
createSocket(S, o, k) ==
  LET S1 == cleanupSocket(S, o)
      s == Least(FreeSocks(S1, S1.client[o].id))
  IN  [S1 EXCEPT !.socket[s] = [NoSocket EXCEPT !.phase = "creating",
                                                 !.owner = o, !.call = k]]

\* #initConnection up to the await of #createSocket
initConnection(S, o, k) ==
  LET S1 == setState(S, o, CONNECTING)
      S2 == [S1 EXCEPT !.client[o].reconnectAttempts = 0,
                       !.client[o].scheduledSinceOpen = 0,
                       !.client[o].pendingConnect = k,
                       !.deferred[k] = "pending"]
  IN  createSocket([S2 EXCEPT !.call[k].st = "creating"], o, k)

\* connect(), the call k; w is the sweep that made the call (0: the
\* application)
connect(S, o, k, w) ==
  LET c == S.client[o]
      S1 == [S EXCEPT !.call[k] = [st |-> "unused", obj |-> o, def |-> 0,
                                   sweep |-> w]]
  IN  IF c.isShuttingDown THEN [S1 EXCEPT !.call[k].st = "shuttingDown"]
      ELSE IF c.state = CONNECTED THEN [S1 EXCEPT !.call[k].st = "resolved"]
      ELSE IF c.pendingConnect # 0
      THEN [S1 EXCEPT !.call[k].st = "following",
                      !.call[k].def = c.pendingConnect]
      ELSE initConnection(S1, o, k)

\* whether connect() on o would go on to #initConnection
connectInits(S, o) ==
  LET c == S.client[o] IN
  ~c.isShuttingDown /\ c.state # CONNECTED /\ c.pendingConnect = 0

\* how the promise of the connect() call k has settled
Outcome(S, k) ==
  LET r == S.call[k] IN
  CASE r.st = "following" -> S.deferred[r.def]
    [] r.st = "resolved" -> "resolved"
    [] r.st = "typeError" -> "rejTypeError"
    [] r.st = "shuttingDown" -> "rejShuttingDown"
    [] r.st = "done" -> "done"
    [] OTHER -> "pending"

\* `return this.#pendingConnect.promise` of #initConnection
returnPendingPromise(S, o, k) ==
  IF S.client[o].pendingConnect = 0
  THEN [S EXCEPT !.call[k].st = "typeError"]
  ELSE [S EXCEPT !.call[k].st = "following",
                 !.call[k].def = S.client[o].pendingConnect]

\* initSession resolved: the rest of #createSocket, and of #initConnection
\* when a connect() awaits it
createSocketDone(S, s) ==
  LET o == S.socket[s].owner
      k == S.socket[s].call
      S1 == [S EXCEPT !.socket[s].phase = "fresh",
                      !.socket[s].listening = TRUE,
                      !.socket[s].call = 0,
                      !.client[o].sock = s,
                      !.client[o].session = TRUE,
                      !.persisted = @ \cup {S.client[o].id}]
  IN  IF k = 0 THEN S1 ELSE returnPendingPromise(S1, o, k)

\* initSession threw: the catch of #initConnection, or of #scheduleReconnect
createSocketFailed(S, s) ==
  LET o == S.socket[s].owner
      k == S.socket[s].call
      S1 == [S EXCEPT !.socket[s].phase = "failed", !.socket[s].call = 0]
  IN  IF k = 0 THEN S1
      ELSE returnPendingPromise(
             resolvePending(setState(S1, o, DISCONNECTED), o, "rejCreate"),
             o, k)

---------------------------------------------------------------------------
(* Automatic session synchronization *)

\* Client.has(id)
has_never(S, id) == FALSE

has(S, id) == S.registry[id] # 0

\* #restoreSession(sessionId) up to the await of client.connect(); w is
\* the sweep that awaits it
restoreSession(S, sessionId, w) ==
  IF has(S, sessionId) THEN S
  ELSE LET n == Least(FreeObjs(S))
           S1 == [S EXCEPT !.client[n] =
                    NewClient(sessionId, TRUE, TRUE, FALSE, SyncMaxRetries),
                           !.ev.made = @ \cup {sessionId}]
       IN  connect(S1, n, Least(FreeCalls(S1, sessionId)), w)

\* otherSessionIds.map(#restoreSession), in listSessions() order
RECURSIVE restoreAll(_, _, _)
restoreAll(S, ids, w) ==
  IF ids = {} THEN S
  ELSE LET i == Least(ids) IN
       restoreAll(restoreSession(S, i, w), ids \ {i}, w)

\* the sessions #syncOtherSessions goes through
otherSessionIds(S, o) == S.persisted \ {S.client[o].id}

\* the guard of #syncOtherSessions
sweepRuns_noGuard(S) == TRUE

sweepRuns(S) == ~S.isSyncing

\* the calls a sweep awaits have all settled: the code after
\* Promise.allSettled, and the finally
finishSweeps(S) ==
  LET done == {w \in S.sweep :
                 \A k \in Calls : S.call[k].sweep = w => Outcome(S, k) # "pending"}
  IN  IF done = {} THEN S
      ELSE [S EXCEPT !.sweep = @ \ done, !.isSyncing = FALSE]

\* #syncOtherSessions up to its await of Promise.allSettled; listThrows:
\* listSessions() throws
syncOtherSessions(S, o, listThrows) ==
  IF ~sweepRuns(S) THEN [S EXCEPT !.ev.skippedBy = o]
  ELSE LET S1 == [S EXCEPT !.isSyncing = TRUE, !.ev.listedBy = o]
           finally == [S1 EXCEPT !.isSyncing = FALSE]
       IN  IF listThrows THEN finally
           ELSE IF otherSessionIds(S1, o) = {} THEN finally
           ELSE LET w == Least(Sweeps \ S1.sweep)
                    S2 == restoreAll(S1, otherSessionIds(S1, o), w)
                IN  IF S2.call = S1.call THEN [S2 EXCEPT !.isSyncing = FALSE]
                    ELSE [S2 EXCEPT !.sweep = @ \cup {w}]

---------------------------------------------------------------------------
(* Client: the handlers of 'connection.update' *)

\* the part of #onConnectionOpen after the plugin manager is there
openRest(S, o, wasReconnecting, listThrows) ==
  LET S1 == [S EXCEPT !.client[o].reconnectAttempts = 0] IN
  IF wasReconnecting THEN S1
  ELSE LET S2 == resolvePending(
                   [S1 EXCEPT !.client[o].hasConnectedOnce = TRUE],
                   o, "resolved")
       IN  IF ~S2.client[o].sync THEN syncOtherSessions(S2, o, listThrows)
           ELSE S2

\* whether #onConnectionOpen has to await pluginManager(this.sock) for real:
\* no usable manager yet, a socket to give it, and the registry not loaded
openSuspends(S, o) ==
  LET c == S.client[o] IN
  /\ c.plugins = 0 \/ S.engine[c.plugins].st = "destroyed"
  /\ c.sock # 0
  /\ ~S.ready

\* #onConnectionOpen for the open of socket s, up to its first real
\* suspension (or to its end)
onConnectionOpen(S, o, s, listThrows) ==
  LET c == S.client[o]
      wasReconnecting == c.state = RECONNECTING
      S1 == register(setState([S EXCEPT !.client[o].scheduledSinceOpen = 0],
                              o, CONNECTED), o)
  IN  IF ~(c.plugins = 0 \/ S.engine[c.plugins].st = "destroyed")
      THEN openRest(S1, o, wasReconnecting, listThrows)
      ELSE IF c.sock = 0   \* new PluginManager(null) throws; caught
      THEN openRest(S1, o, wasReconnecting, listThrows)
      ELSE IF S1.ready     \* init() finds the registry loaded
      THEN openRest([init(S1, s, c.sock) EXCEPT !.client[o].plugins = s],
                    o, wasReconnecting, listThrows)
      ELSE [init(S1, s, c.sock) EXCEPT
              !.socket[s].opening = "init",
              !.socket[s].wasReconnecting = wasReconnecting]

\* pluginManager(sock) resolved: the rest of #onConnectionOpen
onConnectionOpenResume(S, s, listThrows) ==
  LET o == S.socket[s].owner
      S1 == [initDone(S, s) EXCEPT !.client[o].plugins = s,
                                  !.socket[s].opening = "none",
                                  !.socket[s].wasReconnecting = FALSE]
  IN  openRest(S1, o, S.socket[s].wasReconnecting, listThrows)

\* #wait(ms) as #scheduleReconnect calls it for the close of socket s
wait(S, o, s, ms) ==
  [S EXCEPT !.socket[s].timer = "armed", !.socket[s].wait = "pending",
            !.client[o].reconnectTimer = s,
            !.client[o].cancelWait = s,
            !.ev.delay = ms]

\* #scheduleReconnect up to its await of #wait
scheduleReconnect(S, o, s) ==
  LET S1 == [S EXCEPT !.client[o].reconnectAttempts = @ + 1,
                      !.client[o].scheduledSinceOpen = @ + 1]
      c == S1.client[o]
  IN  IF c.reconnectAttempts > c.maxRetries
      THEN resolvePending(setState([S1 EXCEPT !.ev.fatal = TRUE],
                                   o, DISCONNECTED),
                          o, "rejConnectionFatal")
      ELSE LET S2 == IF c.hasConnectedOnce THEN setState(S1, o, RECONNECTING)
                     ELSE S1
               delay == backoff(c.reconnectAttempts)
           IN  wait([S2 EXCEPT !.ev.attempt = c.reconnectAttempts],
                    o, s, delay)

\* the part of #onConnectionClose after the session deletion: the error
\* it rejects with carries the recoverable flag of the reason
closeRest_noReject(S, o, s, info) ==
  IF ~info.recoverable \/ S.client[o].isShuttingDown
  THEN setState([S EXCEPT !.ev.fatal = ~info.recoverable], o, DISCONNECTED)
  ELSE scheduleReconnect(S, o, s)

closeRest(S, o, s, info) ==
  IF ~info.recoverable \/ S.client[o].isShuttingDown
  THEN resolvePending(setState([S EXCEPT !.ev.fatal = ~info.recoverable],
                               o, DISCONNECTED),
                      o,
                      IF info.recoverable THEN "rejConnectionRecoverable"
                      ELSE "rejConnectionFatal")
  ELSE scheduleReconnect(S, o, s)

\* #onConnectionClose for the close of socket s, up to its await of
\* session.delete() (or to the await of #wait, or to its end)
onConnectionClose(S, o, s, statusCode) ==
  LET info == parseDisconnectReason(statusCode)
      S1 == unregister(S, o)
  IN  IF info.deleteSession
      THEN [S1 EXCEPT !.socket[s].closing = "deleting",
                      !.socket[s].statusCode = statusCode]
      ELSE closeRest(S1, o, s, info)

\* session.delete() settled (deleted: it did not fail)
onConnectionCloseResume(S, s, deleted) ==
  LET o == S.socket[s].owner
      info == parseDisconnectReason(S.socket[s].statusCode)
      S1 == [S EXCEPT !.socket[s].closing = "none",
                      !.socket[s].statusCode = "",
                      !.persisted = IF deleted THEN @ \ {S.client[o].id} ELSE @]
  IN  closeRest(S1, o, s, info)

\* the timer of the #wait started for socket s fires: the promise
\* resolves false and #scheduleReconnect goes on to #createSocket
timerFires(S, s) ==
  LET o == S.socket[s].owner
      S1 == [S EXCEPT !.socket[s].timer = "fired",
                      !.client[o].reconnectTimer = 0]
  IN  IF S.socket[s].wait # "pending" THEN S1
      ELSE LET S2 == [S1 EXCEPT !.socket[s].wait = "false"] IN
           IF S2.client[o].isShuttingDown THEN S2
           ELSE createSocket(S2, o, 0)

\* the part of #handleAuth after the pairing choice is known;
\* throws: requestPairingCode fails (or there is no socket to ask)
authRest(S, o, throws) ==
  IF S.client[o].authConfig = "pn" /\ (throws \/ S.client[o].sock = 0)
  THEN resolvePending(S, o, "rejHandler")
  ELSE S

\* #handleAuth of a sync client: the connection is given up
handleAuthAbort(S, o) ==
  resolvePending(setState(cleanupSocket([S EXCEPT !.ev.fatal = TRUE,
                                                  !.ev.pairing = "abort"],
                                        o),
                          o, DISCONNECTED),
                 o, "rejConnectionFatal")

\* #handleAuth after the check of Client.#isConfiguring: the pairing
\* handler, nothing for a silent client, the prompt, or the code or QR of
\* the choice made before
handleAuthPairing(S, o, s, throws) ==
  LET c == S.client[o] IN
  IF c.onPairing
  THEN (IF throws
        THEN resolvePending([S EXCEPT !.ev.pairing = "handler"], o, "rejHandler")
        ELSE [S EXCEPT !.ev.pairing = "handler"])
  ELSE IF c.silent THEN [S EXCEPT !.ev.pairing = "silent"]
  ELSE IF c.authConfig = "none"
  THEN [S EXCEPT !.isConfiguring = TRUE, !.socket[s].prompt = TRUE,
                 !.ev.pairing = "prompt"]
  ELSE authRest([S EXCEPT !.ev.pairing = "shown"], o, throws)

\* #handleAuth for a pairing offer of socket s; throws: the pairing
\* handler, or requestPairingCode, fails
handleAuth_noSyncAbort(S, o, s, throws) ==
  IF S.isConfiguring THEN [S EXCEPT !.ev.pairing = "ignored"]
  ELSE handleAuthPairing(S, o, s, throws)

handleAuth_noGuard(S, o, s, throws) ==
  IF S.client[o].sync THEN handleAuthAbort(S, o)
  ELSE handleAuthPairing(S, o, s, throws)

handleAuth(S, o, s, throws) ==
  IF S.client[o].sync THEN handleAuthAbort(S, o)
  ELSE IF S.isConfiguring THEN [S EXCEPT !.ev.pairing = "ignored"]
  ELSE handleAuthPairing(S, o, s, throws)

\* getConnectionConfig() settled: with the choice ("qr" or "pn"), or with
\* a failure ("failed"), which leaves the finally block and is caught by
\* #handleConnectionUpdate
handleAuthResume(S, s, choice, throws) ==
  LET o == S.socket[s].owner
      S1 == [S EXCEPT !.socket[s].prompt = FALSE,
                      !.isConfiguring = FALSE]
  IN  IF choice = "failed" THEN resolvePending(S1, o, "rejHandler")
      ELSE authRest([S1 EXCEPT !.client[o].authConfig = choice,
                               !.ev.pairing = "shown"],
                    o, throws)

---------------------------------------------------------------------------
(* Client: shutdown *)

disconnect(S, o) ==
  IF S.client[o].isShuttingDown THEN S
  ELSE LET S1 == [S EXCEPT !.client[o].isShuttingDown = TRUE]
           S2 == clearReconnectTimer(S1, o)
           S3 == resolvePending(S2, o, "rejDisconnected")
           S4 == unregister(S3, o)
           S5 == cleanupSocket(S4, o)
           S6 == setState(S5, o, DISCONNECTED)
       IN  [S6 EXCEPT !.client[o].isShuttingDown = FALSE,
                      !.client[o].hasConnectedOnce = FALSE]

---------------------------------------------------------------------------
(* The state machine *)

\* close codes the transport is let to report: one of each class of the
\* table, and one the table does not hold
CloseCodes == {"connectionClosed", "loggedOut", "forbidden", "405",
               "unrecognized"}

\* last: the operation, the client and the socket it ran on, the close
\* code it was given, what it did (NoEv) and how the connect() promises
\* that settled in it have settled
Op(op, o, s, code) == [op |-> op, obj |-> o, sock |-> s, code |-> code]

\* the application has made the Clients of clients; store: the sessions
\* the store holds
InitOver(clients, store, pools) ==
  /\ client = clients
  /\ socket = [s \in Socks |-> [NoSocket EXCEPT !.pool = pools[s]]]
  /\ engine = [s \in Socks |-> NoEngine]
  /\ call = [k \in Calls |-> NoCall]
  /\ deferred = [k \in Calls |-> "none"]
  /\ registry = [i \in Ids |-> 0]
  /\ persisted = store
  /\ isSyncing = FALSE
  /\ isConfiguring = FALSE
  /\ ready = FALSE
  /\ sweep = {}
  /\ files = [f \in Files |-> Absent]
  /\ plugins = <<>>
  /\ buckets = createBuckets
  /\ eventCounts = noCounts
  /\ handlers = [e \in Socks |-> {}]
  /\ debounceTimers = noTimers
  /\ fileLocks = noLocks
  /\ orphanLocks = <<>>
  /\ writes = 0
  /\ last = [op |-> "new", obj |-> 1, sock |-> 0, code |-> "",
             settled |-> [k \in Calls |-> "none"], ev |-> NoEv]

\* every session id has MaxSockets sockets to make
InitFrom(clients, store) ==
  InitOver(clients, store,
           [s \in Socks |-> CHOOSE i \in Ids : s \in SockPool(i)])

InitState(onPairing, store) ==
  InitFrom([o \in Objs |->
              IF o = 1
              THEN NewClient(1, FALSE, FALSE, onPairing, UserMaxRetries)
              ELSE NoClient],
           store)

InitWith(onPairing, store) ==
  InitState(onPairing, store) /\ matching = NoMatching

\* A socket the program can no longer hear from or act on: its listener is
\* removed (or it is closed and no longer this.sock), no handler of its
\* notifications is suspended, its timer is not armed and no live plugin
\* manager is bound to it.
DeadSock(S, s) ==
  LET k == S.socket[s] IN
  /\ k.phase \notin {"unused", "creating", "dead"}
  /\ ~k.listening \/ (k.phase = "closed" /\ S.client[k.owner].sock # s)
  /\ k.opening = "none" /\ k.closing = "none" /\ ~k.prompt
  /\ k.timer # "armed" /\ k.wait # "pending"
  /\ \A e \in Socks : S.engine[e].st \in {"init", "live"} =>
                        e # s /\ S.engine[e].sock # s

\* A Client made by a sweep that nothing refers to any more
DeadObj(S, o) ==
  LET c == S.client[o] IN
  /\ c.created /\ c.sync
  /\ c.state = DISCONNECTED /\ c.pendingConnect = 0 /\ c.sock = 0
  /\ c.plugins = 0
  /\ \A s \in Socks : S.socket[s].owner # o
  /\ \A k \in Calls : S.call[k].obj # o
  /\ \A i \in Ids : S.registry[i] # o

\* What is garbage to the program is dropped from the state: destroyed
\* plugin managers, dead sockets, settled promises and deferreds,
\* unreferenced clients.  A #cancelWait whose promise has settled is a
\* no-op and is written 0.
Collect(S) ==
  LET S1 == [S EXCEPT !.engine = [e \in Socks |->
                        IF @[e].st = "destroyed" THEN NoEngine ELSE @[e]]]
      S2 == [S1 EXCEPT !.socket = [s \in Socks |->
                         IF DeadSock(S1, s) THEN DoneSocket ELSE @[s]]]
      S3 == [S2 EXCEPT !.client = [o \in Objs |->
                         IF @[o].cancelWait # 0
                            /\ S2.socket[@[o].cancelWait].wait # "pending"
                         THEN [@[o] EXCEPT !.cancelWait = 0] ELSE @[o]]]
      S4 == [S3 EXCEPT !.call = [k \in Calls |->
                         IF @[k].st # "unused" /\ Outcome(S3, k) # "pending"
                         THEN DoneCall ELSE @[k]]]
      S5 == [S4 EXCEPT !.deferred = [d \in Calls |->
                         IF @[d] # "pending" THEN "none" ELSE @[d]]]
  IN  [S5 EXCEPT !.client = [o \in Objs |->
                    IF DeadObj(S5, o) THEN NoClient ELSE @[o]]]

\* the step to program state S by operation l; a sweep whose calls have
\* all settled finishes in the same turn of the event loop
Step(R, l) ==
  \E S \in {R} : \E T \in {Collect(finishSweeps(S))} :
  /\ client' = T.client
  /\ socket' = T.socket
  /\ engine' = T.engine
  /\ call' = T.call
  /\ deferred' = T.deferred
  /\ registry' = T.registry
  /\ persisted' = T.persisted
  /\ isSyncing' = T.isSyncing
  /\ isConfiguring' = T.isConfiguring
  /\ ready' = T.ready
  /\ sweep' = T.sweep
  /\ files' = T.files
  /\ plugins' = T.plugins
  /\ buckets' = T.buckets
  /\ eventCounts' = T.eventCounts
  /\ handlers' = T.handlers
  /\ debounceTimers' = T.debounceTimers
  /\ fileLocks' = T.fileLocks
  /\ orphanLocks' = T.orphanLocks
  /\ writes' = T.writes
  /\ UNCHANGED matching
  /\ last' = [op |-> l.op, obj |-> l.obj, sock |-> l.sock, code |-> l.code,
              settled |-> [k \in Calls |->
                IF S.call[k].st \notin {"unused", "done"}
                   /\ Outcome(S, k) # "pending"
                THEN Outcome(S, k) ELSE "none"],
              ev |-> S.ev]

\* the ids a sweep started by o now would make a Client for
sweepNeeds(S, o) ==
  IF S.client[o].sync \/ ~sweepRuns(S) THEN {}
  ELSE {i \in otherSessionIds(S, o) : ~has(S, i)}

\* the pools hold what a sweep started by o now would take
PoolsAllow(S, o) ==
  /\ Cardinality(FreeObjs(S)) >= Cardinality(sweepNeeds(S, o))
  /\ \A i \in sweepNeeds(S, o) :
       FreeCalls(S, i) # {} /\ FreeSocks(S, i) # {}

\* the application calls connect() on its client
Connect(o) ==
  /\ client[o].created /\ ~client[o].sync
  /\ FreeCalls(Cur, client[o].id) # {}
  /\ connectInits(Cur, o) => FreeSocks(Cur, client[o].id) # {}
  /\ Step(connect(Cur, o, Least(FreeCalls(Cur, client[o].id)), 0),
          Op("connect", o, 0, ""))

\* the application calls disconnect() on its client
Disconnect(o) ==
  /\ client[o].created /\ ~client[o].sync
  /\ Step(disconnect(Cur, o), Op("disconnect", o, 0, ""))

\* initSession resolves
CreateDone(s) ==
  /\ socket[s].phase = "creating"
  /\ Step(createSocketDone(Cur, s), Op("created", socket[s].owner, s, ""))

\* initSession throws
CreateFail(s) ==
  /\ socket[s].phase = "creating"
  /\ Step(createSocketFailed(Cur, s), Op("createFailed", socket[s].owner, s, ""))

\* the transport reports a pairing offer: { qr }
PairingOffer(s) ==
  /\ socket[s].listening /\ socket[s].phase = "fresh"
  /\ \E throws \in BOOLEAN :
       Step(handleAuth(Cur, socket[s].owner, s, throws),
            Op("pairing", socket[s].owner, s, ""))

\* the interactive prompt returns
PromptDone(s) ==
  /\ socket[s].prompt
  /\ \E choice \in {"qr", "pn", "failed"}, throws \in BOOLEAN :
       Step(handleAuthResume(Cur, s, choice, throws),
            Op("prompted", socket[s].owner, s, ""))

\* the transport reports { connection: 'open' }
Open(s) ==
  /\ socket[s].listening /\ socket[s].phase = "fresh"
  /\ LET o == socket[s].owner
         S == [Cur EXCEPT !.socket[s].phase = "open"]
     IN  /\ (~openSuspends(S, o) /\ client[o].state # RECONNECTING)
               => PoolsAllow(register(S, o), o)
         /\ \E listThrows \in BOOLEAN :
              Step(onConnectionOpen(S, o, s, listThrows), Op("open", o, s, ""))

\* pluginManager(sock) resolves
OpenResume(s) ==
  /\ socket[s].opening = "init"
  /\ loadsSettled(Cur, s)
  /\ LET o == socket[s].owner IN
     /\ ~socket[s].wasReconnecting => PoolsAllow(Cur, o)
     /\ \E listThrows \in BOOLEAN :
          Step(onConnectionOpenResume(Cur, s, listThrows),
               Op("openResume", o, s, ""))

\* the transport reports { connection: 'close', lastDisconnect }, with
\* one of the given status codes
CloseWith(s, codes) ==
  /\ socket[s].listening /\ socket[s].phase \in {"fresh", "open"}
  /\ \E statusCode \in codes :
       Step(onConnectionClose([Cur EXCEPT !.socket[s].phase = "closed"],
                              socket[s].owner, s, statusCode),
            Op("close", socket[s].owner, s, statusCode))

Close(s) == CloseWith(s, CloseCodes)

\* session.delete() settles
CloseResume(s) ==
  /\ socket[s].closing = "deleting"
  /\ \E deleted \in BOOLEAN :
       Step(onConnectionCloseResume(Cur, s, deleted),
            Op("closeResume", socket[s].owner, s, socket[s].statusCode))

\* the backoff timer of the #wait started for socket s fires
TimerFire(s) ==
  /\ socket[s].timer = "armed"
  /\ socket[s].wait = "pending"
       => FreeSocks(Cur, client[socket[s].owner].id) # {}
  /\ Step(timerFires(Cur, s), Op("timer", socket[s].owner, s, ""))

\* one session, already paired, and a store with no other session
Init == InitWith(FALSE, {})

Next ==
  \/ \E o \in Objs : Connect(o)
  \/ \E o \in Objs : Disconnect(o)
  \/ \E s \in Socks : CreateDone(s)
  \/ \E s \in Socks : CreateFail(s)
  \/ \E s \in Socks : Open(s)
  \/ \E s \in Socks : OpenResume(s)
  \/ \E s \in Socks : Close(s)
  \/ \E s \in Socks : CloseResume(s)
  \/ \E s \in Socks : TimerFire(s)

Spec == Init /\ [][Next]_vars

\* a store that holds every session: the sweep has sessions to restore
SweepInit == InitWith(FALSE, Ids)

\* the sessions connect and the application disconnects; a connection
\* is lost only for good (the account is banned)
SweepNext ==
  \/ \E o \in Objs : Connect(o)
  \/ \E o \in Objs : Disconnect(o)
  \/ \E s \in Socks : CreateDone(s)
  \/ \E s \in Socks : CreateFail(s)
  \/ \E s \in Socks : Open(s)
  \/ \E s \in Socks : OpenResume(s)
  \/ \E s \in Socks : CloseWith(s, {"forbidden"})
  \/ \E s \in Socks : CloseResume(s)

SweepSpec == SweepInit /\ [][SweepNext]_vars

\* a session that is not paired yet: the transport offers pairing, with
\* or without a pairing handler
PairingInit == \E onPairing \in BOOLEAN : InitWith(onPairing, {})

PairingNext ==
  \/ Next
  \/ \E s \in Socks : PairingOffer(s)
  \/ \E s \in Socks : PromptDone(s)

PairingSpec == PairingInit /\ [][PairingNext]_vars

---------------------------------------------------------------------------
(* The plugin directory, the watcher and the managers as a state machine *)

\* what the developer may write to a file
X == <<"x">>
Y == <<"y">>
Contents(filePath) ==
  CASE filePath = <<"a", ".", "j", "s">> ->
         {Broken,
          Module(X :> autoThrows @@ Y :> callOk),
          Module(X :> autoThrows),
          Module(X :> matchHe @@ Y :> autoRejects)}
    [] OTHER ->
         {Module(X :> matchHe),
          Module(X :> switchedOff @@ Y :> autoRejects)}

\* the managers the application makes, and the bodies of the events the
\* transport emits
Managers == 1..MaxManagers
Bodies == {<<>>, <<"!", "h", "e">>, <<"h", "e">>}

\* the developer writes, or removes, a file; the watcher, when there is
\* one, reports add, change or unlink
Write(filePath) ==
  \E mod \in Contents(filePath) \cup {Absent} :
    /\ mod # files[filePath]
    /\ writes < MaxWrites
    /\ LET type == IF files[filePath] = Absent THEN "add"
                   ELSE IF mod = Absent THEN "unlink" ELSE "change"
           S == [Cur EXCEPT !.files[filePath] = mod, !.writes = @ + 1,
                            !.ev.file = filePath, !.ev.type = type]
       IN  Step(IF ready THEN debounce(S, filePath, type) ELSE S,
                Op("write", 0, 0, ""))

\* the timer of #debounce fires
DebounceFires(filePath) ==
  /\ debounceTimers[filePath] # "none"
  /\ Len(fileLocks[filePath]) < MaxQueue
  /\ Step(hmr(Cur, filePath), Op("hmr", 0, 0, ""))

\* the import of the task that holds the mutex of a file settles
TaskDone(filePath) ==
  /\ fileLocks[filePath] # <<>>
  /\ LET r == taskDone(Cur, filePath, fileLocks[filePath]) IN
     Step([r.S EXCEPT !.fileLocks[filePath] = r.tasks],
          Op(IF Head(fileLocks[filePath]).hmr THEN "hmrLoaded" ELSE "loaded",
             0, Head(fileLocks[filePath]).by, ""))

\* the same, for a mutex that #cleanup has dropped
OrphanTaskDone(j) ==
  /\ j \in DOMAIN orphanLocks
  /\ LET lock == orphanLocks[j]
         r == taskDone(Cur, lock.file, lock.tasks)
     IN  Step([r.S EXCEPT !.orphanLocks =
                 SubSeq(@, 1, j - 1)
                 \o (IF r.tasks = <<>> THEN <<>>
                     ELSE <<[file |-> lock.file, tasks |-> r.tasks]>>)
                 \o SubSeq(@, j + 1, Len(@))],
              Op(IF Head(lock.tasks).hmr THEN "hmrLoaded" ELSE "loaded",
                 0, Head(lock.tasks).by, ""))

\* the application calls pluginManager(sock)
NewManager(e) ==
  /\ engine[e].st = "none"
  /\ Step(init(Cur, e, e), Op("init", 0, e, ""))

\* #loadAll of the init() of manager e settles
InitDone(e) ==
  /\ engine[e].st \in {"init", "zombie"}
  /\ socket[e].opening # "init"
  /\ loadsSettled(Cur, e)
  /\ Step(initDone(Cur, e), Op("initDone", 0, e, ""))

\* the application calls destroy() on manager e
Destroy(e) ==
  /\ engine[e].st \in {"init", "live"}
  /\ Len(destroy(Cur, e).orphanLocks) <= MaxOrphans
  /\ Step(destroy(Cur, e), Op("destroy", 0, e, ""))

\* the socket of manager e emits an event it has a handler for
Emit(e) ==
  \E event \in handlers[e], body \in Bodies :
    Step(dispatch([Cur EXCEPT !.ev.body = body], e, event, body),
         Op("dispatch", 0, e, event))

\* the plugin directory is edited while managers come and go
PluginNext ==
  \/ \E f \in Files : Write(f)
  \/ \E f \in Files : DebounceFires(f)
  \/ \E f \in Files : TaskDone(f)
  \/ \E j \in 1..MaxOrphans : OrphanTaskDone(j)
  \/ \E e \in Managers : NewManager(e)
  \/ \E e \in Managers : InitDone(e)
  \/ \E e \in Managers : Destroy(e)

PluginSpec == Init /\ [][PluginNext]_vars

\* the plugins are written before the managers are made, and the
\* sockets of the managers emit events
DispatchNext ==
  \/ \E f \in Files : ready = FALSE /\ Write(f)
  \/ \E f \in Files : TaskDone(f)
  \/ \E e \in Managers : NewManager(e)
  \/ \E e \in Managers : InitDone(e)
  \/ \E e \in Managers : Emit(e)

DispatchSpec == Init /\ [][DispatchNext]_vars

---------------------------------------------------------------------------
(* The matcher as a state machine: one call of #compile and #test *)

\* the texts of at most n characters
RECURSIVE Texts(_)
Texts(n) ==
  IF n = 0 THEN {<<>>}
  ELSE Texts(n - 1)
       \cup {Append(s, c) : s \in {t \in Texts(n - 1) : Len(t) = n - 1},
                            c \in Chars}

\* the match options of the plugins of the model: literals of which one
\* starts another, in both orders, a literal in upper case, patterns of
\* which one is in upper case, and literals with patterns
trigH == <<"h">>
trigHe == <<"h", "e">>
MatchLists ==
  {<<>>,
   <<Str(trigHe), Str(trigH)>>,
   <<Str(trigH), Str(trigHe)>>,
   <<Str(<<"H", "e">>)>>,
   <<Re(<<"e">>), Re(trigH)>>,
   <<Re(<<"H">>), Re(trigH)>>,
   <<Str(trigHe), Re(<<"H">>)>>,
   <<Re(<<"e">>), Str(trigH), Re(<<"!">>)>>}

\* the prefix options: not given, false, one prefix, an empty list
PrefixOpts ==
  {PrefixUndefined, PrefixFalse, PrefixList({"!"}), PrefixList({})}

MatchInit ==
  /\ InitState(FALSE, {})
  /\ \E match \in MatchLists, prefix \in PrefixOpts, body \in Texts(MaxBody) :
       matching = [match |-> match, prefix |-> prefix, body |-> body,
                   done |-> FALSE, result |-> NoResult]

\* #dispatch looks at a plugin of the match bucket: a plugin without
\* matchers is passed over, the others are tested on the body
Test ==
  /\ ~matching.done
  /\ LET matchers == compile(matching.match, matching.prefix) IN
     matching' = [matching EXCEPT
                    !.done = TRUE,
                    !.result = IF matchers.null THEN NoResult
                               ELSE test(matchers, matching.body)]
  /\ UNCHANGED <<client, socket, engine, call, deferred, registry,
                 persisted, isSyncing, isConfiguring, ready, sweep, files,
                 plugins, buckets, eventCounts, handlers, debounceTimers,
                 fileLocks, orphanLocks, writes, last>>

MatchNext == Test

MatchSpec == MatchInit /\ [][MatchNext]_vars
---------------------------------------------------------------------------
(* Client.logout *)

\* logout() after `await this.sock?.logout()` has settled: a rejection
\* goes to the catch; otherwise disconnect(), which does not suspend,
\* then session?.delete()
logoutRest(S, o, threw) ==
  IF threw
  THEN [S EXCEPT !.client[o].loggingOut = "none",
                 !.ev.logoutCaught = "deauth"]
  ELSE LET S1 == disconnect(S, o) IN
       IF S1.client[o].session
       THEN [S1 EXCEPT !.client[o].loggingOut = "deleting"]
       ELSE [S1 EXCEPT !.client[o].loggingOut = "none"]

\* logout() up to its first await that waits for the outside
logout(S, o) ==
  IF S.client[o].sock = 0 THEN logoutRest(S, o, FALSE)
  ELSE [S EXCEPT !.client[o].loggingOut = "deauth"]

\* session.delete() of logout() settled
logoutDeleted(S, o, deleted) ==
  [S EXCEPT !.client[o].loggingOut = "none",
            !.ev.logoutCaught = IF deleted THEN "" ELSE "delete",
            !.persisted = IF deleted THEN @ \ {S.client[o].id} ELSE @]

\* the application calls logout() on its client
Logout(o) ==
  /\ client[o].created /\ ~client[o].sync
  /\ client[o].loggingOut = "none"
  /\ Step(logout(Cur, o), Op("logout", o, 0, ""))

\* sock.logout() settles
LogoutDeauthDone(o) ==
  /\ client[o].loggingOut = "deauth"
  /\ \E threw \in BOOLEAN :
       Step(logoutRest(Cur, o, threw), Op("logoutDeauth", o, 0, ""))

\* session.delete() settles
LogoutDeleteDone(o) ==
  /\ client[o].loggingOut = "deleting"
  /\ \E deleted \in BOOLEAN :
       Step(logoutDeleted(Cur, o, deleted), Op("logoutDeleted", o, 0, ""))

\* the application connects its client and logs it out
LogoutNext ==
  \/ \E o \in Objs : Connect(o)
  \/ \E s \in Socks : CreateDone(s)
  \/ \E s \in Socks : CreateFail(s)
  \/ \E s \in Socks : Open(s)
  \/ \E s \in Socks : OpenResume(s)
  \/ \E s \in Socks : Close(s)
  \/ \E s \in Socks : CloseResume(s)
  \/ \E s \in Socks : TimerFire(s)
  \/ \E o \in Objs : Logout(o)
  \/ \E o \in Objs : LogoutDeauthDone(o)
  \/ \E o \in Objs : LogoutDeleteDone(o)

LogoutSpec == Init /\ [][LogoutNext]_vars
---------------------------------------------------------------------------
(* Pairing offers to the sessions of a sweep, and to two sessions of the *)
(* application                                                           *)

\* the store holds sessions that are not paired any more: the sweep of
\* the application's client restores them and the transport offers them
\* pairing; connections are lost for a while
SyncPairingNext ==
  \/ \E o \in Objs : Connect(o)
  \/ \E s \in Socks : CreateDone(s)
  \/ \E s \in Socks : Open(s)
  \/ \E s \in Socks : OpenResume(s)
  \/ \E s \in Socks : CloseWith(s, {"connectionClosed"})
  \/ \E s \in Socks : TimerFire(s)
  \/ \E s \in Socks : PairingOffer(s)
  \/ \E s \in Socks : PromptDone(s)

SyncPairingSpec == SweepInit /\ [][SyncPairingNext]_vars

\* the application has made two Clients, for two sessions that are not
\* paired yet: the first has no pairing handler, the second has one or
\* has none
TwoSessionsInit ==
  /\ \E onPairing \in BOOLEAN :
       InitFrom([o \in Objs |->
                   CASE o = 1 -> NewClient(1, FALSE, FALSE, FALSE,
                                           UserMaxRetries)
                     [] o = 2 -> NewClient(2, FALSE, FALSE, onPairing,
                                           UserMaxRetries)
                     [] OTHER -> NoClient],
                {})
  /\ matching = NoMatching

TwoSessionsNext ==
  \/ \E o \in Objs : Connect(o)
  \/ \E o \in Objs : Disconnect(o)
  \/ \E s \in Socks : CreateDone(s)
  \/ \E s \in Socks : PairingOffer(s)
  \/ \E s \in Socks : PromptDone(s)

TwoSessionsSpec == TwoSessionsInit /\ [][TwoSessionsNext]_vars

---------------------------------------------------------------------------
(* Managers that are destroyed twice, or initialised after destroy() *)

\* the application calls destroy() on a manager that is destroyed already
DestroyAgain(e) ==
  /\ engine[e].st \in {"zombie", "destroyed"}
  /\ Step(destroy(Cur, e), Op("destroy", 0, e, ""))

\* the application calls init() on a manager that is destroyed: it throws
Reinit(e) ==
  /\ engine[e].st \in {"zombie", "destroyed"}
  /\ Step(init(Cur, e, e), Op("init", 0, e, "destroyed"))

TeardownNext ==
  \/ PluginNext
  \/ \E e \in Managers : DestroyAgain(e)
  \/ \E e \in Managers : Reinit(e)

TeardownSpec == Init /\ [][TeardownNext]_vars

---------------------------------------------------------------------------
(* One paired session that the application connects and never disconnects, *)
(* whose socket constructions all succeed, run fairly                      *)

\* a connection is lost for a while, or for good (logged out)
LiveCodes == {"connectionClosed", "loggedOut"}

\* the transport reports the first 'open' or 'close' of socket s
Emits(s) == socket[s].phase = "fresh" /\ (Open(s) \/ CloseWith(s, LiveCodes))

\* the one session of the run has every socket to make
LiveInit ==
  /\ InitOver([o \in Objs |->
                IF o = 1
                THEN NewClient(1, FALSE, FALSE, FALSE, UserMaxRetries)
                ELSE NoClient],
              {}, [s \in Socks |-> 1])
  /\ matching = NoMatching

LiveNext ==
  \/ \E o \in Objs : Connect(o)
  \/ \E s \in Socks : CreateDone(s)
  \/ \E s \in Socks : Open(s)
  \/ \E s \in Socks : OpenResume(s)
  \/ \E s \in Socks : CloseWith(s, LiveCodes)
  \/ \E s \in Socks : CloseResume(s)
  \/ \E s \in Socks : TimerFire(s)

\* initSession, pluginManager and session.delete() settle, a timer that
\* is armed fires, and a socket that is made reports 'open' or 'close'.
\* Each of these steps is taken once for a socket at most and none of
\* them disables another, so being fair to the one that can be taken is
\* being fair to each.
LiveStep ==
  \E s \in Socks :
    \/ CreateDone(s)
    \/ Emits(s)
    \/ OpenResume(s)
    \/ CloseResume(s)
    \/ TimerFire(s)

LiveFairness == WF_vars(LiveStep)

LiveSpec == LiveInit /\ [][LiveNext]_vars /\ LiveFairness
---------------------------------------------------------------------------
(* The connection state machine: claims C1 to C8, read on Spec *)

\* the sockets of Client o with a backoff wait pending
Waiting(o) ==
  {s \in Socks : socket[s].owner = o /\ socket[s].timer = "armed"
                 /\ socket[s].wait = "pending"}

\* C1, its last clause: the state of a session never goes from
\* Disconnected to Connected in one step, without passing through
\* Connecting.
C1_NeverSkipsConnecting ==
  [][\A o \in Objs :
       ~(client[o].created /\ client[o].state = DISCONNECTED
         /\ client'[o].state = CONNECTED)]_vars

\* C2: while a connect() of a session is unsettled, a later connect() on
\* it constructs no additional socket: the connect() calls of one session
\* await at most one socket construction at a time, and the session has
\* at most one pending deferred.
C2_OneConstructionPerSession ==
  \A o \in Objs :
    /\ Cardinality({s \in Socks : socket[s].owner = o
                                  /\ socket[s].phase = "creating"
                                  /\ socket[s].call # 0}) <= 1
    /\ Cardinality({d \in Calls : call[d].obj = o
                                  /\ deferred[d] = "pending"}) <= 1

\* the status codes C3 calls non-recoverable, and the step in which the
\* close handler of a notification gets past the deletion of the session
NonRecoverableCodes == {"forbidden"}
DeletingCodes == {"loggedOut", "forbidden", "405"}

\* C3: the handling of a close whose code is non-recoverable (forbidden)
\* schedules no reconnect: the attempt counter is not incremented, no
\* backoff timer is armed and no socket construction starts.  The handling
\* of a close with any other code (once it is past the deletion of the
\* session, for the codes that delete it) schedules one as long as the
\* incremented counter does not exceed maxRetries: the counter goes up by
\* one and the timer of a backoff wait is armed.
C3_OnlyRecoverableReschedules ==
  [][LET o == last'.obj
         s == last'.sock
         handled == \/ last'.op = "closeResume"
                    \/ last'.op = "close" /\ last'.code \notin DeletingCodes
     IN  /\ (last'.op \in {"close", "closeResume"}
             /\ last'.code \in NonRecoverableCodes)
              => /\ client'[o].reconnectAttempts = client[o].reconnectAttempts
                 /\ last'.ev.attempt = 0 /\ last'.ev.delay = 0
                 /\ \A t \in Socks :
                      /\ socket'[t].timer = "armed" => socket[t].timer = "armed"
                      /\ socket'[t].phase = "creating"
                           => socket[t].phase = "creating"
         /\ (handled /\ last'.code \notin NonRecoverableCodes
             /\ client[o].reconnectAttempts < client[o].maxRetries)
              => /\ client'[o].reconnectAttempts
                      = client[o].reconnectAttempts + 1
                 /\ last'.ev.attempt = client'[o].reconnectAttempts
                 /\ socket'[s].timer = "armed"
                 /\ socket'[s].wait = "pending"]_vars

\* a forbidden close has been handled to its end on a session that had
\* retries left
C3_Witness ==
  /\ last.op = "closeResume" /\ last.code = "forbidden"
  /\ client[last.obj].state = DISCONNECTED
  /\ client[last.obj].reconnectAttempts < client[last.obj].maxRetries

\* C4, its last sentence: when a session that has been connected ends in
\* Disconnected by retry exhaustion or a non-recoverable close, a promise
\* returned by connect() is rejected with the non-recoverable connection
\* error.
C4_FatalEndAlwaysRejects ==
  (last.ev.fatal /\ client[last.obj].hasConnectedOnce) =>
    \E k \in Calls : last.settled[k] = "rejConnectionFatal"

\* C4, amended: when a session ends in Disconnected by retry exhaustion or
\* a non-recoverable close, the session holds no pending deferred
\* afterwards; every connect() promise that was pending on its deferred
\* is rejected with the non-recoverable connection error, and when no
\* deferred was pending (the first open has resolved it) the fatal end
\* settles no promise.
C4_FatalEndRejectsPending ==
  [][last'.ev.fatal =>
       LET o == last'.obj
           d == client[o].pendingConnect
       IN  /\ client'[o].state = DISCONNECTED
           /\ client'[o].pendingConnect = 0
           /\ \A k \in Calls :
                last'.settled[k] =
                  IF d # 0 /\ call[k].st = "following" /\ call[k].def = d
                  THEN "rejConnectionFatal" ELSE "none"]_vars

\* a fatal end has rejected a connect() promise
C4_Witness ==
  /\ last.ev.fatal
  /\ \E k \in Calls : last.settled[k] = "rejConnectionFatal"

\* C5: when no open is being handled, the attempt counter of a session
\* equals the number of reconnects scheduled since its last open
\* notification (or connect()): an open resets it once, to 0, and no open
\* handled across a close resets it after the close was counted.
C5_CounterCountsReconnects ==
  \A o \in Objs :
    (client[o].created
     /\ \A s \in Socks : ~(socket[s].owner = o /\ socket[s].opening = "init"))
      => client[o].reconnectAttempts = client[o].scheduledSinceOpen

\* C6: the delay waited before the N-th consecutive reconnect since the
\* last open is backoff(N), and backoff is called with an argument in
\* 1..maxRetries only.
C6_NthDelayIsBackoffN ==
  last.ev.attempt # 0 =>
    /\ last.ev.delay = backoff(client[last.obj].scheduledSinceOpen)
    /\ last.ev.attempt \in 1..client[last.obj].maxRetries

\* C7: after disconnect() no backoff wait of the session is left pending:
\* the wait it was called during is cancelled, so that no socket is made
\* for it.
C7_DisconnectCancelsWait ==
  last.op = "disconnect" => Waiting(last.obj) = {}

\* C8: after disconnect() the session is Disconnected, holds no socket and
\* no dispatch engine, has no pending connect promise and no pending
\* reconnect timer, is absent from the registry and has the shutting-down
\* and has-connected-once flags cleared; a second disconnect() changes
\* nothing.
C8_DisconnectIsFinal ==
  last.op = "disconnect" =>
    LET o == last.obj
        c == client[o]
    IN  /\ c.state = DISCONNECTED
        /\ c.sock = 0 /\ c.plugins = 0
        /\ c.pendingConnect = 0
        /\ \A k \in Calls : call[k].obj = o => deferred[k] # "pending"
        /\ c.reconnectTimer = 0
        /\ \A s \in Socks : socket[s].owner = o => socket[s].timer # "armed"
        /\ registry[c.id] = 0
        /\ ~c.isShuttingDown /\ ~c.hasConnectedOnce
        /\ disconnect(Cur, o) = Cur

---------------------------------------------------------------------------
(* The background sweep: claims C9 and C10, read on SweepSpec *)

\* C9: a sweep makes (and connects) a Client for no id that is the id of
\* the session that started it, nor for an id that is in the registry
\* when the sweep handles it.
C9_SweepSkipsKnownSessions ==
  \A i \in last.ev.made :
    /\ i # client[last.obj].id
    /\ registry[i] = 0

\* a sweep has listed the store, which holds another session, and has
\* restored nothing because that session is in the registry
C9_Witness ==
  /\ last.ev.listedBy # 0
  /\ last.ev.made = {}
  /\ \E i \in persisted : i # client[last.obj].id /\ registry[i] # 0

\* C10: at most one sweep is in flight; the syncing flag is set exactly
\* while one is (so every path out of a sweep clears it); a sweep that is
\* triggered while the flag is set lists and connects nothing; and the
\* open of a background sync session triggers no sweep at all.
C10_OneSweepAtATime ==
  /\ Cardinality(sweep) <= 1
  /\ isSyncing <=> sweep # {}
  /\ last.ev.skippedBy # 0 => last.ev.listedBy = 0 /\ last.ev.made = {}
  /\ (last.op \in {"open", "openResume"} /\ client[last.obj].sync)
       => last.ev = NoEv

\* a sweep was triggered while another one was in flight
C10_Witness ==
  /\ last.ev.skippedBy # 0
  /\ sweep # {}

---------------------------------------------------------------------------
(* The plugin registry and hot reload: claims C11, C12 and C14, read on *)
(* PluginSpec                                                           *)

\* the identities of the registry whose plugin came from filePath
PluginsOf(filePath) ==
  {id \in DOMAIN plugins : plugins[id].filePath = filePath}

\* the events a manager has a subscription for when it is in step with
\* the reference counts
Active == {ev \in EVENTS : eventCounts[ev] > 0}

\* an unlink waits second in line for a mutex of filePath: it runs in the
\* step that ends the task before it
UnlinkNext(filePath) ==
  LET second(tasks) == Len(tasks) >= 2 /\ tasks[2].hmr
                       /\ tasks[2].type = "unlink"
  IN  \/ second(fileLocks[filePath])
      \/ \E j \in DOMAIN orphanLocks :
           orphanLocks[j].file = filePath /\ second(orphanLocks[j].tasks)

C12_TwoExportsDownToOne ==
  [][LET f == last'.ev.file IN
     (/\ last'.op = "hmrLoaded" /\ ~last'.ev.loadFailed
      /\ Cardinality(PluginsOf(f)) = 2
      /\ Len(last'.ev.loaded) = 1
      /\ ~UnlinkNext(f))
     => /\ Cardinality({id \in DOMAIN plugins' : plugins'[id].filePath = f}) = 1
        /\ \A e \in Socks :
             engine'[e].st \in {"init", "live"} =>
               \A ev \in handlers'[e] : eventCounts'[ev] > 0
    ]_vars

\* a file went from two plugins to one, the count of an event fell to
\* zero with it, and a live manager had a subscription for that event
\* before the reload
C12_Witness ==
  /\ last.op = "hmrLoaded" /\ ~last.ev.loadFailed
  /\ Cardinality(last.ev.unloaded) = 2
  /\ Len(last.ev.loaded) = 1
  /\ Cardinality(PluginsOf(last.ev.file)) = 1
  /\ eventCounts["call"] = 0
  /\ \E e \in Socks : engine[e].st = "live" /\ handlers[e] = {defaultEvent}

\* C14: the identities of distinct (source file, export name) pairs are
\* distinct, so that a step that loads, reloads or unloads one file
\* leaves every plugin of every other file in the registry and in the
\* buckets of its events.
C14_IdentityIsUnique ==
  [][last'.op \in {"loaded", "hmrLoaded", "hmr"} =>
       \A id \in DOMAIN plugins :
         plugins[id].filePath # last'.ev.file =>
           /\ id \in DOMAIN plugins'
           /\ plugins'[id] = plugins[id]
           /\ \A ev \in EVENTS, key \in {"auto", "match"} :
                bucketHas(buckets[ev][key], id)
                => bucketHas(buckets'[ev][key], id)
    ]_vars

---------------------------------------------------------------------------
(* Dispatch: claim C13, read on DispatchSpec *)

\* C13: in the dispatch of one event every plugin of the auto bucket of
\* the event, and every plugin of its match bucket whose matcher accepts
\* the body, is invoked, whichever of them throw or reject; no failure
\* gets out of an invocation; and the dispatch leaves the registry, the
\* buckets, the reference counts, the subscriptions and the managers as
\* they were.
C13_FailuresAreIsolated ==
  [][last'.op = "dispatch" =>
       LET bucket == buckets[last'.code]
           body == last'.ev.body
           invoked == last'.ev.invoked
       IN  /\ \A i \in DOMAIN bucket.auto :
                \E k \in DOMAIN invoked : invoked[k].id = bucket.auto[i].id
           /\ \A i \in DOMAIN bucket.match :
                (body # <<>> /\ ~test(bucket.match[i].matchers, body).null)
                => \E k \in DOMAIN invoked :
                     invoked[k] = [id |-> bucket.match[i].id,
                                   match |-> test(bucket.match[i].matchers,
                                                  body)]
           /\ ~last'.ev.escaped
           /\ plugins' = plugins /\ buckets' = buckets
           /\ eventCounts' = eventCounts /\ handlers' = handlers
           /\ engine' = engine
    ]_vars

\* a dispatch invoked a plugin that throws and, after it, a plugin whose
\* promise rejects
C13_Witness ==
  /\ last.op = "dispatch"
  /\ \E i, j \in DOMAIN last.ev.invoked :
       /\ i < j
       /\ plugins[last.ev.invoked[i].id].fails = "throws"
       /\ plugins[last.ev.invoked[j].id].fails = "rejects"
---------------------------------------------------------------------------
(* The matcher: claims C15, C16 and C17, read on MatchSpec *)

\* the literal triggers of the call, lower-cased, in declaration order
Literals ==
  LET lits == filterRe(matching.match, FALSE)
  IN  [i \in DOMAIN lits |-> toLowerCase(lits[i].v)]
LiteralSet == {Literals[i] : i \in DOMAIN Literals}

\* the prefix set the call requires, when it requires one
PrefixRequired == matching.prefix.k # "false"
PrefixSet ==
  IF matching.prefix.k = "list" THEN matching.prefix.v ELSE PREFIXES

\* the token of a text: the lower-cased text after the first character,
\* up to the first of the given separators
TokenUpTo(seps, body) ==
  LET rest == toLowerCase(SubSeq(body, 2, Len(body)))
      at == {i \in DOMAIN rest : rest[i] \in seps}
  IN  IF at = {} THEN rest
      ELSE SubSeq(rest, 1, (CHOOSE i \in at : \A j \in at : i <= j) - 1)
Whitespace == {" ", TAB}
Token == TokenUpTo(Whitespace, matching.body)

\* the first character of the text, as the matcher reads it (lower-cased)
First == lowerChar(matching.body[1])

\* the call was answered through the literal path
ByLiteral == ~matching.result.null /\ ~matching.result.re

\* C15: for a matcher with literal triggers and a required prefix set, a
\* text matches through the literal path only if its first character is
\* in the prefix set; and when it is, and the token (the lower-cased text
\* after the first character up to the first whitespace character) is one
\* of the lower-cased literal triggers, the result is that literal with
\* the first character as prefix.
C15_LiteralExactMatch ==
  (/\ matching.done /\ matching.body # <<>>
   /\ Literals # <<>> /\ PrefixRequired)
  => /\ ByLiteral => First \in PrefixSet
     /\ (First \in PrefixSet /\ Token \in LiteralSet)
        => matching.result = Literal(Token, First)

\* C16: when the prefix is satisfied (no prefix is required, or the
\* first character is in the prefix set) and the token is none of the
\* literal triggers, the literal path succeeds exactly when some literal
\* trigger is a proper prefix of the token, and the result is then the
\* first such literal in declaration order with the first character as
\* prefix.
ProperPrefix(s) == Len(Token) > Len(s) /\ startsWith(Token, s)
C16_StartsWithFallback ==
  (/\ matching.done /\ matching.body # <<>> /\ Literals # <<>>
   /\ (PrefixRequired => First \in PrefixSet)
   /\ Token \notin LiteralSet)
  => LET with == {i \in DOMAIN Literals : ProperPrefix(Literals[i])} IN
     /\ ByLiteral <=> with # {}
     /\ with # {} =>
          matching.result
            = Literal(Literals[CHOOSE i \in with : \A j \in with : i <= j],
                      First)

\* the fallback chose the first of two literals the token starts with,
\* the shorter one
C16_Witness ==
  /\ matching.done /\ matching.body # <<>> /\ Token \notin LiteralSet
  /\ ByLiteral
  /\ \E i, j \in DOMAIN Literals :
       /\ i < j /\ ProperPrefix(Literals[i]) /\ ProperPrefix(Literals[j])
       /\ Len(Literals[i]) < Len(Literals[j])
       /\ matching.result.match = Literals[i]

\* the pattern triggers of the call, in declaration order
Patterns == filterRe(matching.match, TRUE)

\* C17: for a text that is not empty and a plugin that has a matcher,
\* when the literal path gives no match the result is that of the first
\* pattern trigger, in declaration order, that matches the text as it
\* came (not lower-cased, nothing stripped, whatever the prefix policy),
\* with a null prefix; when no pattern matches there is no result.
C17_PatternsInOrder ==
  (/\ matching.done /\ matching.body # <<>> /\ matching.match # <<>>
   /\ ~ByLiteral)
  => LET hits == {i \in DOMAIN Patterns :
                   ~exec(Patterns[i], matching.body).null}
     IN  IF hits = {} THEN matching.result.null
         ELSE LET m == exec(Patterns[CHOOSE i \in hits :
                                       \A j \in hits : i <= j],
                            matching.body)
              IN  /\ ~matching.result.null /\ matching.result.re
                  /\ matching.result.match = m.text
                  /\ matching.result.index = m.index
                  /\ matching.result.prefix = "null"

\* a text whose first character satisfies the prefix policy of a matcher
\* with literals fell through to the patterns, and the second pattern
\* matched where the first did not
C17_Witness ==
  /\ matching.done /\ matching.body # <<>>
  /\ Literals # <<>> /\ PrefixRequired /\ First \in PrefixSet
  /\ Len(Patterns) >= 2
  /\ exec(Patterns[1], matching.body).null
  /\ ~exec(Patterns[2], matching.body).null
  /\ matching.result.re
  /\ matching.result.match = Patterns[2].v
---------------------------------------------------------------------------
(* Client.logout: claim C18, read on LogoutSpec *)

\* C18: when a call of logout() completes, without a failure of the
\* deletion itself, the session is Disconnected, its socket is released,
\* it is not in the registry and its persisted session is gone, whether
\* the logout operation of the socket succeeded or failed.
C18_LogoutDisconnectsAndDeletes ==
  [][\A o \in Objs :
       (/\ last'.op \in {"logout", "logoutDeauth", "logoutDeleted"}
        /\ last'.obj = o
        /\ client'[o].loggingOut = "none"
        /\ last'.ev.logoutCaught # "delete")
       => /\ client'[o].state = DISCONNECTED
          /\ client'[o].sock = 0
          /\ \A i \in Ids : registry'[i] # o
          /\ client'[o].id \notin persisted'
    ]_vars

---------------------------------------------------------------------------
(* Ordering within a session and retry exhaustion: claims C19 and C20, *)
(* read on Spec                                                        *)

\* a handler of session o that has begun has not yet applied all its
\* effects: #onConnectionOpen stands at its await of the plugin manager,
\* or #onConnectionClose at its await of session.delete()
Suspended(o) ==
  \E s \in Socks :
    /\ socket[s].owner = o
    /\ socket[s].opening = "init" \/ socket[s].closing = "deleting"

\* C19: within one session the handling of a notification (pairing
\* offer, open, close) or of a connect() or disconnect() call begins only
\* when no other handler of the session is part-way through.
C19_HandlersDoNotOverlap ==
  [][\A o \in Objs :
       (/\ last'.op \in {"connect", "disconnect", "pairing", "open", "close"}
        /\ last'.obj = o)
       => ~Suspended(o)
    ]_vars

\* the step exhausts the retries of session o: its attempt counter passes
\* maxRetries
Exhausts(o) ==
  /\ client[o].created
  /\ client[o].reconnectAttempts <= client[o].maxRetries
  /\ client'[o].reconnectAttempts > client[o].maxRetries

\* the effects of the step that exhausts the retries of session o
ExhaustionEffects(o) ==
  LET d == client[o].pendingConnect IN
  /\ client'[o].state = DISCONNECTED
  /\ last'.ev.fatal
  /\ client'[o].pendingConnect = 0
  /\ \A k \in Calls :
       (d # 0 /\ call[k].st = "following" /\ call[k].def = d)
       => last'.settled[k] = "rejConnectionFatal"
  /\ last'.ev.delay = 0 /\ last'.ev.attempt = 0
  /\ \A s \in Socks :
       /\ socket'[s].timer = "armed" => socket[s].timer = "armed"
       /\ socket'[s].phase = "creating" => socket[s].phase = "creating"

\* C20: a session schedules at most maxRetries reconnects without an open
\* notification (or a connect()) between them; and the recoverable close
\* that takes the attempt counter past maxRetries sets the state to
\* Disconnected, rejects the pending connect promise with the
\* non-recoverable connection error, starts no timer and makes no socket.
C20_RetryExhaustion ==
  [][\A o \in Objs :
       /\ (last'.obj = o /\ last'.ev.attempt # 0)
          => client'[o].scheduledSinceOpen <= client'[o].maxRetries
       /\ Exhausts(o) => ExhaustionEffects(o)
    ]_vars
---------------------------------------------------------------------------
(* Pairing: claims C21 (read on SyncPairingSpec), C22 and C23 (read on *)
(* TwoSessionsSpec)                                                    *)

\* C21: a pairing offer to a sync session is answered at once by giving
\* the connection up: the state becomes Disconnected, the socket is
\* released and its listener removed, every connect() promise pending on
\* the session is rejected with the non-recoverable connection error, and
\* neither a pairing handler nor the prompt is started for it.
C21_SyncPairingAborts ==
  [][(last'.op = "pairing" /\ client[last'.obj].sync) =>
       LET o == last'.obj
           s == last'.sock
           d == client[o].pendingConnect
       IN  /\ last'.ev.pairing = "abort" /\ last'.ev.fatal
           /\ client'[o].state = DISCONNECTED
           /\ client'[o].sock = 0
           /\ ~socket'[s].listening
           /\ client'[o].pendingConnect = 0
           /\ \A k \in Calls :
                (d # 0 /\ call[k].st = "following" /\ call[k].def = d)
                => last'.settled[k] = "rejConnectionFatal"
           /\ ~socket'[s].prompt
           /\ isConfiguring' = isConfiguring
    ]_vars

\* a sync session was offered pairing while its connect() promise was
\* pending, and the promise was rejected
C21_Witness ==
  /\ last.op = "pairing" /\ last.ev.pairing = "abort"
  /\ last.obj # 1
  /\ \E k \in Calls : last.settled[k] = "rejConnectionFatal"

\* C22: every pairing offer to a non-sync session that has a pairing
\* handler invokes the handler, once, and starts no prompt, whatever the
\* other sessions are doing.
C22_HandlerAlwaysInvoked ==
  [][(/\ last'.op = "pairing"
      /\ ~client[last'.obj].sync /\ client[last'.obj].onPairing)
     => /\ last'.ev.pairing = "handler"
        /\ \A s \in Socks : socket'[s].prompt = socket[s].prompt
    ]_vars

\* the sockets whose #handleAuth is inside the prompt
Prompting == {s \in Socks : socket[s].prompt}

\* C23: at most one session is inside the pairing-choice prompt; a
\* pairing offer handled while the configuring flag is set starts no
\* prompt; and the flag is set exactly while a prompt is open, so that it
\* is cleared when the prompt ends, by a choice or by a failure.
C23_OnePromptAtATime ==
  [][/\ Cardinality({s \in Socks : socket'[s].prompt}) <= 1
     /\ isConfiguring' <=> \E s \in Socks : socket'[s].prompt
     /\ (last'.op = "pairing" /\ isConfiguring)
        => {s \in Socks : socket'[s].prompt} = Prompting
     /\ last'.op = "prompted" => ~isConfiguring'
    ]_vars

\* a session without a pairing handler was offered pairing while another
\* session was inside the prompt, and no second prompt was started
C23_Witness ==
  /\ last.op = "pairing" /\ last.ev.pairing = "ignored"
  /\ ~client[last.obj].onPairing /\ client[last.obj].authConfig = "none"
  /\ \E s \in Prompting : socket[s].owner # last.obj
---------------------------------------------------------------------------
(* The session registry: claim C24, read on Spec *)

\* C24: the registry holds, for an id, at most one client, and that
\* client has this id and is Connected; a client enters the registry
\* only in the step that handles the open of its socket; and after the
\* step that handles a close notification for a client, or its
\* disconnect(), the client is not in the registry.
C24_RegisteredMeansConnected ==
  [][/\ \A i \in Ids :
          registry'[i] # 0 =>
            /\ client'[registry'[i]].id = i
            /\ client'[registry'[i]].state = CONNECTED
            /\ registry'[i] # registry[i] =>
                 last'.op = "open" /\ last'.obj = registry'[i]
     /\ last'.op \in {"close", "disconnect"} =>
          \A i \in Ids : registry'[i] # last'.obj
    ]_vars

---------------------------------------------------------------------------
(* The plugin registry: claims C25 to C29, read on PluginSpec *)

\* no load, reload or unload is under way, and no init() awaits its
\* directory load
Settled ==
  /\ \A f \in Files : fileLocks[f] = <<>>
  /\ orphanLocks = <<>>
  /\ \A e \in Socks : engine[e].st \notin {"init", "zombie"}

\* C25: once the mutations of the registry are completed (the directory
\* loads of the init() calls, the hot reloads and the unlinks), every
\* live manager has a handler for exactly the events whose reference
\* count is positive.
C25_LiveManagersInSync ==
  Settled => \A e \in Socks : engine[e].st = "live" => handlers[e] = Active

\* the identities a bucket holds
BucketIds(bucket) == {bucket[i].id : i \in DOMAIN bucket}

\* C26: for every event the reference count is the number of identities
\* in the unconditional bucket of the event plus the number in its
\* conditioned bucket, and it is not negative.
C26_CountsEqualBuckets ==
  \A ev \in EVENTS :
    /\ eventCounts[ev] >= 0
    /\ eventCounts[ev] = Cardinality(BucketIds(buckets[ev].auto))
                         + Cardinality(BucketIds(buckets[ev].match))
    /\ Len(buckets[ev].auto) = Cardinality(BucketIds(buckets[ev].auto))
    /\ Len(buckets[ev].match) = Cardinality(BucketIds(buckets[ev].match))

\* a reload has unloaded plugins and left an event with one plugin in
\* each of its buckets
C26_Witness ==
  /\ last.op = "hmrLoaded" /\ last.ev.unloaded # {}
  /\ eventCounts[defaultEvent] = 2
  /\ Len(buckets[defaultEvent].auto) = 1
  /\ Len(buckets[defaultEvent].match) = 1

\* how many times a bucket holds an identity
Times(bucket, id) == Cardinality({i \in DOMAIN bucket : bucket[i].id = id})

\* the events a plugin subscribes to
EventsOf(plugin) == {plugin.events[k] : k \in DOMAIN plugin.events}

\* C27: every plugin of the registry is, for each event it subscribes
\* to, exactly once in the conditioned bucket of the event and not in the
\* unconditional one when it has a matcher, and the other way round when
\* it has none; and a bucket of an event holds only identities of the
\* registry whose plugin subscribes to the event.
C27_BucketsMatchRegistry ==
  /\ \A id \in DOMAIN plugins : \A ev \in EventsOf(plugins[id]) :
       IF plugins[id].matchers.null
       THEN /\ Times(buckets[ev].auto, id) = 1
            /\ Times(buckets[ev].match, id) = 0
       ELSE /\ Times(buckets[ev].match, id) = 1
            /\ Times(buckets[ev].auto, id) = 0
  /\ \A ev \in EVENTS, key \in {"auto", "match"} :
       \A id \in BucketIds(buckets[ev][key]) :
         id \in DOMAIN plugins /\ ev \in EventsOf(plugins[id])

\* the loads, reloads and unloads of filePath that have begun and not
\* ended: the tasks that hold a mutex of the file
InFlight(filePath) ==
  (IF fileLocks[filePath] # <<>> THEN 1 ELSE 0)
  + Cardinality({j \in DOMAIN orphanLocks : orphanLocks[j].file = filePath})

\* C28: for every file at most one load, reload or unload of the file is
\* under way.
C28_OneTaskPerFile == \A f \in Files : InFlight(f) <= 1

\* the state the managers share, and a manager's own
Shared == <<plugins, buckets, eventCounts, ready, fileLocks, debounceTimers,
            orphanLocks>>
SharedCleared ==
  /\ plugins = <<>> /\ buckets = createBuckets /\ eventCounts = noCounts
  /\ ~ready /\ fileLocks = noLocks /\ debounceTimers = noTimers
Program == <<client, socket, engine, call, deferred, registry, persisted,
             isSyncing, isConfiguring, ready, sweep, files, plugins, buckets,
             eventCounts, handlers, debounceTimers, fileLocks, orphanLocks,
             writes, matching>>

\* C29: destroy() of a manager takes the manager out of the instances and
\* drops its handlers; it leaves the registry, the buckets, the counts, the
\* watcher, the locks and the timers as they are when another instance
\* remains and clears them when none remains; nothing else clears them;
\* destroy() of a destroyed manager, and init() of one, change nothing.
DestroyEffects ==
  LET e == last'.sock IN
  IF e \notin instances(Cur) THEN UNCHANGED Program
  ELSE /\ handlers' = [handlers EXCEPT ![e] = {}]
       /\ engine'[e].st \notin {"init", "live"}
       /\ \A d \in Socks \ {e} : engine'[d] = engine[d]
       /\ IF instances(Cur) \ {e} # {} THEN UNCHANGED Shared
          ELSE SharedCleared'
C29_TeardownWithLastEngine ==
  [][/\ (last'.op = "destroy") => DestroyEffects
     /\ (last'.op = "init" /\ engine[last'.sock].st # "none")
          => UNCHANGED Program
     /\ (ready /\ ~ready')
          => (/\ last'.op = "destroy"
              /\ \A e \in Socks : engine'[e].st \notin {"init", "live"})
    ]_vars

C29_Witness ==
  /\ last.op = "destroy"
  /\ engine[last.sock].st = "none"
  /\ \E d \in Socks : engine[d].st = "live" /\ handlers[d] # {}
  /\ plugins # <<>>
  /\ \E f \in Files : fileLocks[f] # <<>> \/ debounceTimers[f] # "none"
  /\ ready

---------------------------------------------------------------------------
(* The matcher: claim C30, read on MatchSpec *)

\* the literal path has a match for the text: the prefix policy is
\* satisfied and the token is a literal trigger or starts with one
LiteralPathSucceeds ==
  /\ Literals # <<>>
  /\ PrefixRequired => First \in PrefixSet
  /\ Token # <<>>
  /\ \/ Token \in LiteralSet
     \/ \E i \in DOMAIN Literals : ProperPrefix(Literals[i])

\* the pattern triggers that match the text
Hits == {i \in DOMAIN Patterns : ~exec(Patterns[i], matching.body).null}

\* C30: when the literal path has a match the result is a literal one,
\* also when a pattern trigger matches the text; a literal trigger equal
\* to the token is the result even when another literal trigger is a
\* proper prefix of the token; a result that comes from a pattern is
\* that of the first pattern trigger, in declaration order, that matches.
C30_TieBreak ==
  (matching.done /\ matching.body # <<>>)
  => /\ LiteralPathSucceeds => ByLiteral
     /\ (LiteralPathSucceeds /\ Token \in LiteralSet)
          => matching.result = Literal(Token, First)
     /\ (~matching.result.null /\ matching.result.re)
          => /\ Hits # {}
             /\ matching.result.match
                  = exec(Patterns[CHOOSE i \in Hits : \A j \in Hits : i <= j],
                         matching.body).text

---------------------------------------------------------------------------
(* Claims C31 to C40 *)

\* the promise of the connect() call k is not settled
Unsettled(k) == call[k].st \notin {"unused", "done"}

\* a backoff timer is armed and the run has no socket left to make when
\* it fires: the run ends here for want of sockets
Starved ==
  \E s \in Socks :
    /\ socket[s].timer = "armed" /\ socket[s].wait = "pending"
    /\ FreeSocks(Cur, client[socket[s].owner].id) = {}

\* C31: every connect() call settles in the end, and the session does
\* not stay in Connecting or in Reconnecting for ever.
C31_ConnectSettles ==
  /\ \A k \in Calls : Unsettled(k) ~> (~Unsettled(k) \/ Starved)
  /\ \A o \in Objs :
       (client[o].created /\ client[o].state \in {CONNECTING, RECONNECTING})
         ~> (client[o].state \notin {CONNECTING, RECONNECTING} \/ Starved)

\* the live dispatch engines of the session of Client o
EnginesOf(o) ==
  {e \in Socks : engine[e].st = "live" /\ socket[engine[e].sock].owner = o}

\* C32: a session has one live dispatch engine at most, and the socket of
\* every live dispatch engine is the socket a session holds.
C32_EngineOnHeldSocket ==
  /\ \A o \in Objs : Cardinality(EnginesOf(o)) <= 1
  /\ \A e \in Socks :
       engine[e].st = "live"
         => \E o \in Objs : client[o].created /\ client[o].sock = engine[e].sock

\* C33: when the socket construction of a connect() fails, the session
\* is Disconnected with no pending promise, and the promise of that
\* connect() is rejected with the error of the construction.
C33_CreationFailureRejects ==
  [][(last'.op = "createFailed" /\ socket[last'.sock].call # 0)
       => LET o == last'.obj
              k == socket[last'.sock].call
          IN  /\ client'[o].state = DISCONNECTED
              /\ client'[o].pendingConnect = 0
              /\ last'.settled[k] = "rejCreate"]_vars

\* the session of Client o as disconnect() leaves it (and as it is before
\* the first connect()): Disconnected, with no socket, no pending promise
\* and no timer
Quiet(o) ==
  /\ client[o].created /\ ~client[o].sync
  /\ client[o].state = DISCONNECTED
  /\ client[o].sock = 0
  /\ client[o].pendingConnect = 0
  /\ client[o].reconnectTimer = 0
  /\ ~client[o].hasConnectedOnce

\* the sockets of Client o that are being made, or that have a listener
\* or an armed timer
Busy(o) ==
  {s \in Socks : /\ socket[s].owner = o
                 /\ \/ socket[s].phase = "creating"
                    \/ socket[s].listening
                    \/ socket[s].timer = "armed"}

\* C34: from disconnect() to the next connect() the session stays as
\* disconnect() left it: the state is Disconnected, no socket is made or
\* taken and no reconnect is scheduled.
C34_DisconnectIsFinal ==
  [][\A o \in Objs :
       (Quiet(o) /\ ~(last'.op = "connect" /\ last'.obj = o))
         => Quiet(o)' /\ Busy(o)' \subseteq Busy(o)]_vars

\* the backoff waits of Client o whose timer is pending
Waits(o) ==
  {s \in Socks : /\ socket[s].owner = o
                 /\ socket[s].timer = "armed" /\ socket[s].wait = "pending"}

\* C35: a session has one pending backoff timer at most, and it is the
\* one #reconnectTimer holds, which disconnect() cancels.
C35_OneTimerPerSession ==
  \A o \in Objs :
    /\ Cardinality(Waits(o)) <= 1
    /\ \A s \in Waits(o) : client[o].reconnectTimer = s

\* C36: a session that is Disconnected holds no socket with a listener.
C36_DisconnectedHoldsNoSocket ==
  \A o \in Objs :
    (client[o].created /\ client[o].state = DISCONNECTED)
      => \A s \in Socks : socket[s].owner = o => ~socket[s].listening

\* the ways a connect() promise is rejected
Rejections ==
  {"rejDisconnected", "rejConnectionFatal", "rejConnectionRecoverable",
   "rejCreate", "rejTypeError", "rejHandler", "rejShuttingDown"}

\* C37: a step that rejects the promise of a connect() leaves the session
\* of that connect() Disconnected.
C37_RejectedMeansDisconnected ==
  [][\A k \in Calls :
       last'.settled[k] \in Rejections
         => client'[call[k].obj].state = DISCONNECTED]_vars

\* the Clients of session id i that are Connecting, Connected or
\* Reconnecting
LiveClients(i) ==
  {o \in Objs : /\ client[o].created /\ client[o].id = i
                /\ client[o].state \in {CONNECTING, CONNECTED, RECONNECTING}}

\* C38: a session id has one live Client at most, and the registry entry
\* of a Client is removed by a step of that Client only.
C38_OneLiveClientPerId ==
  [][\A i \in Ids :
       /\ Cardinality(LiveClients(i)') <= 1
       /\ (registry[i] # 0 /\ registry'[i] = 0) => last'.obj = registry[i]
    ]_vars

\* the definitions the buckets hold
BucketEntries ==
  UNION {{buckets[ev][key][i] : i \in DOMAIN buckets[ev][key]} :
         ev \in EVENTS, key \in {"auto", "match"}}

\* C39: the definition an event bucket holds under an identity is the
\* definition the registry maps the identity to, and the source file
\* recorded in it is the file whose identity it bears.
C39_BucketsHoldRegistryDefinitions ==
  \A b \in BucketEntries :
    /\ b.id \in DOMAIN plugins => b = plugins[b.id]
    /\ identity(b.filePath, b.name) = b.id

\* the loads of the scans of #loadAll that wait for, or hold, the mutex of
\* filePath in this lifetime of the registry
ScanLoads(filePath) ==
  {i \in DOMAIN fileLocks[filePath] : ~fileLocks[filePath][i].hmr}

\* C40: in one lifetime of the registry a file is loaded by one scan at
\* most, and the registry is never populated and marked ready while no
\* engine is live.
C40_OneScanPerLifetime ==
  /\ \A f \in Files : Cardinality(ScanLoads(f)) <= 1
  /\ instances(Cur) = {} => ~(ready /\ DOMAIN plugins # {})

====
